---- MODULE Spec2Model ----
(***************************************************************************)
(* rlox: a single-pass bytecode compiler and stack VM for Lox, in Rust.    *)
(*                                                                         *)
(* The model follows src/src/compiler.rs (the Pratt parser and emitter),   *)
(* src/src/vm.rs (the interpreter loop, calls, upvalues, the root marker), *)
(* src/src/memory.rs (the object list) and src/src/main.rs (REPL and file  *)
(* mode).  A source text is a sequence of lexemes; a chunk's code is a     *)
(* sequence of bytes; heap pointers are indices into per-kind tables.      *)
(* Numbers are exact rationals a/b (b > 0), with b = 0 for +-inf and NaN.  *)
(***************************************************************************)
EXTENDS Integers, Sequences, FiniteSets, TLC

(***************************************************************************)
(* Bounds of the model.                                                    *)
(***************************************************************************)
MaxLines == 2
MaxExprLen == 5
MaxBody == 2
MaxPrefix == 3
MaxTokens == 3

(***************************************************************************)
(* Program constants.                                                      *)
(***************************************************************************)
FRAMES_MAX == 64
STACK_MAX == FRAMES_MAX * 8
MAX_LOCALS == 256
U8_MAX == 255
U16_MAX == 65535
DebugStressGc == TRUE

OpReturn == 0
OpConstant == 1
OpNegate == 2
OpNil == 3
OpTrue == 4
OpFalse == 5
OpAdd == 6
OpSubtract == 7
OpMultiply == 8
OpDivide == 9
OpNot == 10
OpEqual == 11
OpGreater == 12
OpLess == 13
OpPrint == 14
OpPop == 15
OpDefineGlobal == 16
OpGetGlobal == 17
OpSetGlobal == 18
OpGetLocal == 19
OpSetLocal == 20
OpJumpIfFalse == 21
OpJump == 22
OpLoop == 23
OpCall == 24
\* The four opcodes vm.rs uses beyond those of src/src/chunk.rs.
OpClosure == 25
OpGetUpvalue == 26
OpSetUpvalue == 27
OpCloseUpvalue == 28

(***************************************************************************)
(* Values (src/src/value.rs).  One record shape for every variant.         *)
(***************************************************************************)
Nil == [t |-> "Nil", a |-> 0, b |-> 0]
Bool(x) == [t |-> "Bool", a |-> IF x THEN 1 ELSE 0, b |-> 0]
Number(n, d) == [t |-> "Number", a |-> n, b |-> d]
ObjString(p) == [t |-> "ObjString", a |-> p, b |-> 0]
ObjFunction(p) == [t |-> "ObjFunction", a |-> p, b |-> 0]
ObjNative(p) == [t |-> "ObjNative", a |-> p, b |-> 0]
ObjClosure(p) == [t |-> "ObjClosure", a |-> p, b |-> 0]

is_falsey(v) == v.t = "Nil" \/ (v.t = "Bool" /\ v.a = 0)

(***************************************************************************)
(* f64 arithmetic on exact rationals.                                      *)
(***************************************************************************)
Abs(x) == IF x < 0 THEN -x ELSE x
Sign(x) == IF x < 0 THEN -1 ELSE IF x = 0 THEN 0 ELSE 1

RECURSIVE Gcd(_, _)
Gcd(x, y) == IF y = 0 THEN x ELSE Gcd(y, x % y)

Norm(n, d) == LET g == Gcd(Abs(n), d) IN Number(n \div g, d \div g)
NaN == Number(0, 0)
Inf(s) == Number(s, 0)
IsNaN(x) == x.b = 0 /\ x.a = 0
IsInf(x) == x.b = 0 /\ x.a # 0
IsZero(x) == x.b > 0 /\ x.a = 0

f64_neg(x) == Number(-x.a, x.b)

f64_add(x, y) ==
    IF IsNaN(x) \/ IsNaN(y) THEN NaN
    ELSE IF IsInf(x) /\ IsInf(y) THEN (IF x.a = y.a THEN x ELSE NaN)
    ELSE IF IsInf(x) THEN x
    ELSE IF IsInf(y) THEN y
    ELSE Norm(x.a * y.b + y.a * x.b, x.b * y.b)

f64_sub(x, y) == f64_add(x, f64_neg(y))

f64_mul(x, y) ==
    IF IsNaN(x) \/ IsNaN(y) THEN NaN
    ELSE IF IsInf(x) \/ IsInf(y)
         THEN (IF IsZero(x) \/ IsZero(y) THEN NaN ELSE Inf(Sign(x.a) * Sign(y.a)))
    ELSE Norm(x.a * y.a, x.b * y.b)

f64_div(x, y) ==
    IF IsNaN(x) \/ IsNaN(y) THEN NaN
    ELSE IF IsInf(x) THEN (IF IsInf(y) THEN NaN
                           ELSE Inf(Sign(x.a) * (IF y.a < 0 THEN -1 ELSE 1)))
    ELSE IF IsInf(y) THEN Number(0, 1)
    ELSE IF IsZero(y) THEN (IF IsZero(x) THEN NaN ELSE Inf(Sign(x.a)))
    ELSE Norm(x.a * y.b * Sign(y.a), x.b * Abs(y.a))

f64_lt(x, y) ==
    IF IsNaN(x) \/ IsNaN(y) THEN FALSE
    ELSE IF IsInf(x) THEN x.a < 0 /\ ~(IsInf(y) /\ y.a < 0)
    ELSE IF IsInf(y) THEN y.a > 0
    ELSE x.a * y.b < y.a * x.b

f64_gt(x, y) == f64_lt(y, x)

\* Value's derived PartialEq: variants by payload, pointers by address.
value_eq(x, y) ==
    IF x.t = "Number" /\ y.t = "Number"
    THEN ~IsNaN(x) /\ ~IsNaN(y) /\ x = y
    ELSE x = y

(***************************************************************************)
(* The heap: per-kind object tables, and the collector's intrusive list    *)
(* (src/src/memory.rs).  A pointer is an index into its table; 0 is null.  *)
(* objects lists <<kind, pointer>> from head_object onward.                *)
(***************************************************************************)
EmptyHeap ==
    [functions |-> <<>>, strings |-> <<>>, closures |-> <<>>,
     upvalues |-> <<>>, natives |-> <<>>,
     objects |-> <<>>, marked |-> {}, freed |-> {}]

\* A collector that sweeps: every linked object that is not marked is freed.
gc_collect_garbage_sweep(h) ==
    [h EXCEPT !.freed = @ \cup ({h.objects[i] : i \in 1..Len(h.objects)} \ h.marked)]

\* GarbageCollector::collect_garbage: logs only.
gc_collect_garbage(h) == h

\* GarbageCollector::heap_alloc: obj.set_next(head_object); head_object = ptr.
gc_heap_alloc(h, kind, obj) ==
    LET h1 == IF DebugStressGc THEN gc_collect_garbage(h) ELSE h
        p == Len(h1[kind]) + 1
    IN [h1 EXCEPT ![kind] = Append(@, obj),
                  !.objects = <<(<<kind, p>>)>> \o @]

\* std::alloc::alloc of a string that is never linked (Compiler::string).
raw_alloc_string(h, str) == [h EXCEPT !.strings = Append(@, str)]

\* GarbageCollector::free_objects, run by Drop: every linked object is freed.
free_objects(h) ==
    [h EXCEPT !.freed = @ \cup {h.objects[i] : i \in 1..Len(h.objects)}]

\* The pointer the last allocation of `kind` returned.
last_ptr(h, kind) == Len(h[kind])

\* ObjFunction::new
ObjFunction_new(function_type, name) ==
    [function_type |-> function_type, arity |-> 0, code |-> <<>>,
     constants |-> <<>>, name |-> name, upvalue_count |-> 0]

(***************************************************************************)
(* Tokens (src/src/scanner.rs).  A token is its lexeme; the scanner's      *)
(* character classification is the table token_type.                       *)
(***************************************************************************)
EOF == "<EOF>"
NumberLexemes == {"0", "1", "2", "3", "4", "5"}
StringLexemes == {"'foo'", "'bar'", "'a'"}
ScanErrorLexemes == {"@"}

\* str::parse::<f64> of a number lexeme.
parse_f64(lex) ==
    CASE lex = "0" -> Number(0, 1)
      [] lex = "1" -> Number(1, 1)
      [] lex = "2" -> Number(2, 1)
      [] lex = "3" -> Number(3, 1)
      [] lex = "4" -> Number(4, 1)
      [] lex = "5" -> Number(5, 1)

\* The lexeme of a string literal without its two quotes.
trim_quotes(lex) ==
    CASE lex = "'foo'" -> "foo"
      [] lex = "'bar'" -> "bar"
      [] lex = "'a'" -> "a"

token_type(lex) ==
    CASE lex = "(" -> "LeftParen"
      [] lex = ")" -> "RightParen"
      [] lex = "{" -> "LeftBrace"
      [] lex = "}" -> "RightBrace"
      [] lex = "," -> "Comma"
      [] lex = "." -> "Dot"
      [] lex = "-" -> "Minus"
      [] lex = "+" -> "Plus"
      [] lex = ";" -> "Semicolon"
      [] lex = "/" -> "Slash"
      [] lex = "*" -> "Star"
      [] lex = "!" -> "Bang"
      [] lex = "!=" -> "BangEqual"
      [] lex = "=" -> "Equal"
      [] lex = "==" -> "EqualEqual"
      [] lex = ">" -> "Greater"
      [] lex = ">=" -> "GreaterEqual"
      [] lex = "<" -> "Less"
      [] lex = "<=" -> "LessEqual"
      [] lex = "and" -> "And"
      [] lex = "class" -> "Class"
      [] lex = "else" -> "Else"
      [] lex = "false" -> "False"
      [] lex = "for" -> "For"
      [] lex = "fun" -> "Fun"
      [] lex = "if" -> "If"
      [] lex = "nil" -> "Nil"
      [] lex = "or" -> "Or"
      [] lex = "print" -> "Print"
      [] lex = "return" -> "Return"
      [] lex = "super" -> "Super"
      [] lex = "this" -> "This"
      [] lex = "true" -> "True"
      [] lex = "var" -> "Var"
      [] lex = "while" -> "While"
      [] lex = EOF -> "EOF"
      [] lex \in NumberLexemes -> "Number"
      [] lex \in StringLexemes -> "String"
      [] OTHER -> "Identifier"

TokAt(toks, i) == IF i <= Len(toks) THEN toks[i] ELSE EOF

(***************************************************************************)
(* Precedence (src/src/compiler.rs).                                       *)
(***************************************************************************)
PrecNone == 0
PrecAssignment == 1
PrecOr == 2
PrecAnd == 3
PrecEquality == 4
PrecComparison == 5
PrecTerm == 6
PrecFactor == 7
PrecUnary == 8
PrecCall == 9
PrecPrimary == 10

next_level(p) == IF p = PrecPrimary THEN PrecPrimary ELSE p + 1

precedence(tt) ==
    CASE tt \in {"Minus", "Plus"} -> PrecTerm
      [] tt \in {"Slash", "Star"} -> PrecFactor
      [] tt \in {"BangEqual", "EqualEqual"} -> PrecEquality
      [] tt \in {"Greater", "GreaterEqual", "Less", "LessEqual"} -> PrecComparison
      [] tt = "And" -> PrecAnd
      [] tt = "Or" -> PrecOr
      [] tt = "LeftParen" -> PrecCall
      [] OTHER -> PrecNone

prefix_parser_type(tt) ==
    CASE tt = "LeftParen" -> "Grouping"
      [] tt \in {"Minus", "Bang"} -> "Unary"
      [] tt = "Number" -> "Number"
      [] tt \in {"Nil", "True", "False"} -> "Literal"
      [] tt = "String" -> "String"
      [] tt = "Identifier" -> "Variable"
      [] OTHER -> "None"

infix_parser_type(tt) ==
    CASE tt = "LeftParen" -> "Call"
      [] tt \in {"Plus", "Minus", "Star", "Slash", "BangEqual", "EqualEqual",
                 "Greater", "GreaterEqual", "Less", "LessEqual"} -> "Binary"
      [] tt = "And" -> "And"
      [] tt = "Or" -> "Or"
      [] OTHER -> "None"

(***************************************************************************)
(* The compiler (src/src/compiler.rs).  A compiler is the record           *)
(*   toks, cur, prev      the token stream, self.current, self.previous    *)
(*   had_error, panic_mode, errors (the messages written to stderr)        *)
(*   compiler_states      the stack of CompilerState                       *)
(*   h                    the heap the garbage_collector reference owns    *)
(*   ret                  the value the last value-returning method gave   *)
(*   panicked             a Rust panic unwound the compile                 *)
(* Each method is an operator from compiler to compiler.                   *)
(***************************************************************************)
current(c) == TokAt(c.toks, c.cur)
previous(c) == TokAt(c.toks, c.prev)

current_compiler_state(c) == c.compiler_states[Len(c.compiler_states)]
current_function(c) == current_compiler_state(c).function
current_chunk(c) == c.h.functions[current_function(c)]

\* CompilerState::new without the sentinel local.
CompilerState_new_no_sentinel(function) ==
    [locals |-> <<>>, scope_depth |-> 0, function |-> function]

\* CompilerState::new: slot 0 is the unnamed sentinel local.
CompilerState_new(function) ==
    [locals |-> <<[name |-> "", depth |-> 0]>>, scope_depth |-> 0,
     function |-> function]

begin_scope(c) ==
    [c EXCEPT !.compiler_states[Len(c.compiler_states)].scope_depth = @ + 1]

\* error_at reporting whether or not the compiler is in panic mode.
error_at_always(c, token, message) ==
    [c EXCEPT !.errors = Append(@, [message |-> message, at |-> token]),
              !.had_error = TRUE,
              !.panic_mode = TRUE]

error_at(c, token, message) ==
    IF c.panic_mode THEN c
    ELSE [c EXCEPT !.errors = Append(@, [message |-> message, at |-> token]),
                   !.had_error = TRUE,
                   !.panic_mode = TRUE]

error_at_current(c, message) == error_at(c, current(c), message)
error(c, message) == error_at(c, previous(c), message)

\* The loop of advance: scan_token until it returns a token.
RECURSIVE scan_token_loop(_, _)
scan_token_loop(c, i) ==
    IF TokAt(c.toks, i) \in ScanErrorLexemes
    THEN scan_token_loop(error_at_current(c, "Unexpected character"), i + 1)
    ELSE [c EXCEPT !.cur = i]

advance(c) ==
    IF c.panicked THEN c ELSE scan_token_loop([c EXCEPT !.prev = c.cur], c.cur + 1)

\* advance_to_start: scan errors before the first token are only printed.
RECURSIVE advance_to_start(_, _)
advance_to_start(toks, i) ==
    IF TokAt(toks, i) \in ScanErrorLexemes THEN advance_to_start(toks, i + 1) ELSE i

check(c, tt) == token_type(current(c)) = tt

consume(c, tt, message) ==
    IF c.panicked THEN c
    ELSE IF check(c, tt) THEN advance(c) ELSE error_at_current(c, message)

\* match_token: ret is whether the token matched.
match_token(c, tt) ==
    IF c.panicked THEN c
    ELSE IF check(c, tt) THEN [advance(c) EXCEPT !.ret = 1] ELSE [c EXCEPT !.ret = 0]

\* Chunk::write_chunk on the current chunk.
emit_byte(c, byte) ==
    IF c.panicked THEN c
    ELSE [c EXCEPT !.h.functions[current_function(c)].code = Append(@, byte)]

emit_bytes(c, byte1, byte2) == emit_byte(emit_byte(c, byte1), byte2)

\* emit_bytes whose operand is the value the preceding call returned.
emit_operand(c, opcode) == emit_bytes(c, opcode, c.ret)

emit_return(c) == emit_byte(emit_byte(c, OpNil), OpReturn)

\* make_constant with the index cut to a byte and no check.
make_constant_wrapping(c, value) ==
    IF c.panicked THEN c
    ELSE [c EXCEPT !.h.functions[current_function(c)].constants = Append(@, value),
                   !.ret = Len(current_chunk(c).constants) % (U8_MAX + 1)]

\* Chunk::add_constant, then the one-byte check; ret is the index.
make_constant(c, value) ==
    IF c.panicked THEN c
    ELSE LET constant == Len(current_chunk(c).constants)
             added == [c EXCEPT !.h.functions[current_function(c)].constants =
                                    Append(@, value)]
         IN IF constant > U8_MAX
            THEN [error(added, "Too many constants in one chunk.") EXCEPT !.ret = 0]
            ELSE [added EXCEPT !.ret = constant]

emit_constant(c, value) == emit_operand(make_constant(c, value), OpConstant)

identifier_constant(c, name) ==
    IF c.panicked THEN c
    ELSE LET h1 == gc_heap_alloc(c.h, "strings", name)
         IN make_constant([c EXCEPT !.h = h1], ObjString(last_ptr(h1, "strings")))

\* ret is the offset of the two operand bytes.
emit_jump(c, opcode) ==
    IF c.panicked THEN c
    ELSE [c EXCEPT !.h.functions[current_function(c)].code = @ \o <<opcode, 255, 255>>,
                   !.ret = Len(current_chunk(c).code) + 1]

\* patch_jump without the 2 bytes of the operand taken off the distance.
patch_jump_from_operand(c, offset) ==
    IF c.panicked THEN c
    ELSE LET jump == Len(current_chunk(c).code) - offset
             f == current_function(c)
         IN IF jump > U16_MAX
            THEN [error(c, "Too much code to jump over.") EXCEPT
                     !.h.functions[f].code[offset + 1] = 0,
                     !.h.functions[f].code[offset + 2] = 0]
            ELSE [c EXCEPT !.h.functions[f].code[offset + 1] = jump \div 256,
                           !.h.functions[f].code[offset + 2] = jump % 256]

patch_jump(c, offset) ==
    IF c.panicked THEN c
    ELSE LET jump == Len(current_chunk(c).code) - offset - 2
             f == current_function(c)
         IN IF jump > U16_MAX
            THEN [error(c, "Too much code to jump over.") EXCEPT
                     !.h.functions[f].code[offset + 1] = 0,
                     !.h.functions[f].code[offset + 2] = 0]
            ELSE [c EXCEPT !.h.functions[f].code[offset + 1] = jump \div 256,
                           !.h.functions[f].code[offset + 2] = jump % 256]

emit_loop(c, loop_start) ==
    IF c.panicked THEN c
    ELSE LET offset == Len(current_chunk(c).code) + 1 - loop_start + 2
             high == ((offset % 65536) \div 256) % 256
             low == offset % 256
         IN IF offset > U16_MAX
            THEN emit_bytes(error(emit_byte(c, OpLoop), "Loop body too large."), high, low)
            ELSE emit_bytes(emit_byte(c, OpLoop), high, low)

\* Token == Token, which compiler.rs uses on Local.name and scanner.rs does
\* not define: two identifier tokens are equal when their lexemes are.
token_eq(a, b) == a = b

\* The slot, -1 for "not a local", -2 for the Err result.
resolve_local(c, compiler_state, name) ==
    LET hits == {i \in 1..Len(compiler_state.locals) :
                    token_eq(name, compiler_state.locals[i].name)}
    IN IF hits = {} THEN -1
       ELSE LET i == CHOOSE k \in hits : \A j \in hits : j <= k
            IN IF compiler_state.locals[i].depth = -1 THEN -2 ELSE i - 1

mark_initialized(c) ==
    IF c.panicked THEN c
    ELSE IF current_compiler_state(c).scope_depth = 0 THEN c
    ELSE [c EXCEPT !.compiler_states[Len(c.compiler_states)]
                      .locals[Len(current_compiler_state(c).locals)].depth =
                          current_compiler_state(c).scope_depth]

define_variable(c, global) ==
    IF c.panicked THEN c
    ELSE IF current_compiler_state(c).scope_depth > 0 THEN mark_initialized(c)
    ELSE emit_bytes(c, OpDefineGlobal, global)

\* Whether the reverse walk over locals, from the i-th down, meets `name`
\* before it breaks at a local of an enclosing scope.
declared_in_scope(locals, i, scope_depth, name) ==
    \E j \in 1..i :
        /\ token_eq(locals[j].name, name)
        /\ \A k \in j..i : ~(locals[k].depth # -1 /\ locals[k].depth < scope_depth)

\* The tail of declare_variable: the MAX_LOCALS check and locals.push.
push_local(c, name) ==
    IF Len(current_compiler_state(c).locals) > MAX_LOCALS
    THEN error(c, "Too many local variables in function.")
    ELSE IF Len(current_compiler_state(c).locals) = MAX_LOCALS
    THEN [c EXCEPT !.panicked = TRUE]             \* ArrayVec::push on a full array
    ELSE [c EXCEPT !.compiler_states[Len(c.compiler_states)].locals =
                       Append(@, [name |-> name, depth |-> -1])]

\* declare_variable with the walk over locals never breaking at an
\* enclosing scope.
declare_variable_any_scope(c) ==
    IF c.panicked THEN c
    ELSE IF current_compiler_state(c).scope_depth = 0 THEN c
    ELSE IF \E i \in 1..Len(current_compiler_state(c).locals) :
               token_eq(current_compiler_state(c).locals[i].name, previous(c))
    THEN push_local(error(c, "Already a variable with this name in this scope."),
                    previous(c))
    ELSE push_local(c, previous(c))

declare_variable(c) ==
    IF c.panicked THEN c
    ELSE IF current_compiler_state(c).scope_depth = 0 THEN c
    ELSE IF declared_in_scope(current_compiler_state(c).locals,
                              Len(current_compiler_state(c).locals),
                              current_compiler_state(c).scope_depth, previous(c))
    THEN push_local(error(c, "Already a variable with this name in this scope."),
                    previous(c))
    ELSE push_local(c, previous(c))

\* The tail of parse_variable; ret is the constant index of the name.
variable_constant(c) ==
    IF c.panicked THEN c
    ELSE IF current_compiler_state(c).scope_depth > 0 THEN [c EXCEPT !.ret = 0]
    ELSE identifier_constant(c, previous(c))

parse_variable(c, error_message) ==
    variable_constant(declare_variable(consume(c, "Identifier", error_message)))

\* The reverse loop of end_scope from index i down.
RECURSIVE end_scope_loop(_, _)
end_scope_loop(c, i) ==
    IF i = 0 THEN c
    ELSE IF current_compiler_state(c).locals[i].depth > current_compiler_state(c).scope_depth
    THEN end_scope_loop(
           [emit_byte(c, OpPop) EXCEPT
              !.compiler_states[Len(c.compiler_states)].locals =
                  SubSeq(@, 1, Len(@) - 1)],
           i - 1)
    ELSE end_scope_loop(c, i - 1)

end_scope(c) ==
    IF c.panicked THEN c
    ELSE end_scope_loop(
           [c EXCEPT !.compiler_states[Len(c.compiler_states)].scope_depth = @ - 1],
           Len(current_compiler_state(c).locals))

\* end_compiler without emit_return.
end_compiler_no_return(c) ==
    IF c.panicked THEN c
    ELSE [c EXCEPT !.ret = current_function(c),
                   !.compiler_states = SubSeq(@, 1, Len(@) - 1)]

\* emit_return, then the state is popped; ret is the function.
end_compiler(c) ==
    IF c.panicked THEN c
    ELSE [c EXCEPT !.h.functions[current_function(c)].code = @ \o <<OpNil, OpReturn>>,
                   !.ret = current_function(c),
                   !.compiler_states = SubSeq(@, 1, Len(@) - 1)]

number(c) == emit_constant(c, parse_f64(previous(c)))

literal(c) ==
    CASE token_type(previous(c)) = "False" -> emit_byte(c, OpFalse)
      [] token_type(previous(c)) = "Nil" -> emit_byte(c, OpNil)
      [] token_type(previous(c)) = "True" -> emit_byte(c, OpTrue)
      [] OTHER -> error(c, "Expect literal.")

string(c) ==
    LET h1 == raw_alloc_string(c.h, trim_quotes(previous(c)))
    IN emit_constant([c EXCEPT !.h = h1], ObjString(last_ptr(h1, "strings")))

RECURSIVE synchronize_loop(_)
synchronize_loop(c) ==
    IF token_type(current(c)) = "EOF" THEN c
    ELSE IF token_type(previous(c)) = "Semicolon" THEN c
    ELSE IF token_type(current(c)) \in
              {"Class", "Fun", "Var", "For", "If", "While", "Print", "Return"} THEN c
    ELSE synchronize_loop(advance(c))

synchronize(c) == synchronize_loop([c EXCEPT !.panic_mode = FALSE])

RECURSIVE expression(_), parse_precedence(_, _), prefix_rule(_, _), infix_rule(_),
          infix_loop(_, _), unary(_), binary(_), grouping(_), and_(_), or_(_),
          Compiler_call(_), argument_list(_), argument_list_loop(_, _),
          named_variable(_, _, _), declaration(_), statement(_), block(_),
          block_loop(_), function(_), parameters_loop(_), var_declaration(_),
          fun_declaration(_), for_statement(_), if_statement(_),
          while_statement(_), return_statement(_), print_statement(_),
          expression_statement(_)

expression(c) == parse_precedence(c, PrecAssignment)

\* named_variable, the match on resolve_local: ret is <<set_op, get_op, arg>>.
variable_ops(c, name) ==
    IF resolve_local(c, current_compiler_state(c), name) = -2
    THEN [error(c, "Can't read local variable in its own initializer.")
             EXCEPT !.ret = <<OpSetLocal, OpGetLocal, 0>>]
    ELSE IF resolve_local(c, current_compiler_state(c), name) # -1
    THEN [c EXCEPT !.ret = <<OpSetLocal, OpGetLocal,
                             resolve_local(c, current_compiler_state(c), name)>>]
    ELSE [identifier_constant(c, name) EXCEPT !.ret = <<OpSetGlobal, OpGetGlobal, @>>]

\* named_variable, the final if: c is the compiler after match_token(Equal).
variable_access(c, can_assign, ops) ==
    IF c.panicked THEN c
    ELSE IF c.ret = 1 /\ can_assign THEN emit_bytes(expression(c), ops[1], ops[3])
    ELSE emit_bytes(c, ops[2], ops[3])

\* named_variable from match_token(Equal) on.
variable_assignment(c, can_assign) ==
    IF c.panicked THEN c
    ELSE variable_access(match_token(c, "Equal"), can_assign, c.ret)

named_variable(c, name, can_assign) ==
    IF c.panicked THEN c ELSE variable_assignment(variable_ops(c, name), can_assign)

variable(c, can_assign) == named_variable(c, previous(c), can_assign)

grouping(c) == consume(expression(c), "RightParen", "Expect ')' after expression.")

\* The match of unary on the operator type.
unary_operator(c, operator_type) ==
    CASE c.panicked -> c
      [] operator_type = "Minus" -> emit_byte(c, OpNegate)
      [] operator_type = "Bang" -> emit_byte(c, OpNot)
      [] OTHER -> error(c, "Expect unary operator.")

unary(c) == unary_operator(parse_precedence(c, PrecUnary), token_type(previous(c)))

\* The match of binary on the operator type.
binary_operator(c, operator_type) ==
    CASE c.panicked -> c
      [] operator_type = "Plus" -> emit_byte(c, OpAdd)
      [] operator_type = "Minus" -> emit_byte(c, OpSubtract)
      [] operator_type = "Star" -> emit_byte(c, OpMultiply)
      [] operator_type = "Slash" -> emit_byte(c, OpDivide)
      [] operator_type = "BangEqual" -> emit_bytes(c, OpEqual, OpNot)
      [] operator_type = "EqualEqual" -> emit_byte(c, OpEqual)
      [] operator_type = "Greater" -> emit_byte(c, OpGreater)
      [] operator_type = "GreaterEqual" -> emit_bytes(c, OpLess, OpNot)
      [] operator_type = "Less" -> emit_byte(c, OpLess)
      [] operator_type = "LessEqual" -> emit_bytes(c, OpGreater, OpNot)
      [] OTHER -> error(c, "Expect binary operator.")

binary(c) ==
    binary_operator(
      parse_precedence(c, next_level(precedence(token_type(previous(c))))),
      token_type(previous(c)))

\* and from the emitted jump on: c.ret is end_jump.
and_operand(c) ==
    IF c.panicked THEN c
    ELSE patch_jump(parse_precedence(emit_byte(c, OpPop), PrecAnd), c.ret)

\* and without its jump: the left operand is popped and the right one parsed.
and_without_jump(c) ==
    IF c.panicked THEN c ELSE parse_precedence(emit_byte(c, OpPop), PrecAnd)

and_(c) == and_operand(emit_jump(c, OpJumpIfFalse))

\* or from the second jump on: c.ret is end_jump.
or_operand(c, else_jump) ==
    IF c.panicked THEN c
    ELSE patch_jump(parse_precedence(emit_byte(patch_jump(c, else_jump), OpPop), PrecOr),
                    c.ret)

\* or from the first jump on: c.ret is else_jump.
or_end_jump(c) == IF c.panicked THEN c ELSE or_operand(emit_jump(c, OpJump), c.ret)

or_(c) == or_end_jump(emit_jump(c, OpJumpIfFalse))

\* argument_list after one more expression: c is the compiler after
\* match_token(Comma), arg_count the count including that expression.
argument_counted(c, arg_count) ==
    IF c.panicked THEN c
    ELSE IF arg_count > U8_MAX THEN [c EXCEPT !.panicked = TRUE]  \* u8 overflow
    ELSE IF c.ret = 1 THEN argument_list_loop(c, arg_count)
    ELSE [c EXCEPT !.ret = arg_count]

\* The loop of argument_list; ret is arg_count.
argument_list_loop(c, arg_count) ==
    argument_counted(match_token(expression(c), "Comma"), arg_count + 1)

\* The closing consume of argument_list, which keeps arg_count in ret.
argument_list_close(c) ==
    IF c.panicked THEN c
    ELSE [consume(c, "RightParen", "Expect ')' after arguments.") EXCEPT !.ret = c.ret]

argument_list(c) ==
    IF c.panicked THEN c
    ELSE IF ~check(c, "RightParen") THEN argument_list_close(argument_list_loop(c, 0))
    ELSE argument_list_close([c EXCEPT !.ret = 0])

Compiler_call(c) == emit_operand(argument_list(c), OpCall)

\* The match of parse_precedence on the prefix parser type.
prefix_rule(c, can_assign) ==
    IF c.panicked THEN c
    ELSE CASE prefix_parser_type(token_type(previous(c))) = "Grouping" -> grouping(c)
           [] prefix_parser_type(token_type(previous(c))) = "Unary" -> unary(c)
           [] prefix_parser_type(token_type(previous(c))) = "Number" -> number(c)
           [] prefix_parser_type(token_type(previous(c))) = "Literal" -> literal(c)
           [] prefix_parser_type(token_type(previous(c))) = "String" -> string(c)
           [] prefix_parser_type(token_type(previous(c))) = "Variable" ->
                  variable(c, can_assign)
           [] OTHER -> error(c, "Expect expression with prefix parser.")

\* The match of parse_precedence on the infix parser type.
infix_rule(c) ==
    IF c.panicked THEN c
    ELSE CASE infix_parser_type(token_type(previous(c))) = "Binary" -> binary(c)
           [] infix_parser_type(token_type(previous(c))) = "And" -> and_(c)
           [] infix_parser_type(token_type(previous(c))) = "Or" -> or_(c)
           [] infix_parser_type(token_type(previous(c))) = "Call" -> Compiler_call(c)
           [] OTHER -> error(c, "Expect expression with infix parser.")

\* The while loop of parse_precedence.
infix_loop(c, prec) ==
    IF c.panicked \/ ~(prec <= precedence(token_type(current(c)))) THEN c
    ELSE infix_loop(infix_rule(advance(c)), prec)

\* The final if of parse_precedence: c is the compiler after match_token(Equal).
assignment_target(c, prec) ==
    IF c.panicked THEN c
    ELSE IF c.ret = 1 /\ prec <= PrecAssignment
    THEN error(c, "Invalid assignment target.")
    ELSE c

parse_precedence(c, prec) ==
    IF c.panicked THEN c
    ELSE assignment_target(
           match_token(infix_loop(prefix_rule(advance(c), prec <= PrecAssignment), prec),
                       "Equal"),
           prec)

print_statement(c) ==
    emit_byte(consume(expression(c), "Semicolon", "Expect ';' after print expression."),
              OpPrint)

expression_statement(c) ==
    emit_byte(consume(expression(c), "Semicolon",
                      "Expect ';' after expression statement expression."),
              OpPop)

\* var_declaration, the if: c is the compiler after match_token(Equal).
var_initializer(c) ==
    IF c.panicked THEN c
    ELSE IF c.ret = 1 THEN expression(c)
    ELSE emit_byte(c, OpNil)

\* var_declaration after parse_variable: c.ret is global.
var_defined(c) ==
    IF c.panicked THEN c
    ELSE define_variable(
           consume(var_initializer(match_token(c, "Equal")),
                   "Semicolon", "Expect ';' after variable declaration."),
           c.ret)

var_declaration(c) == var_defined(parse_variable(c, "Expect variable name."))

\* The parameter loop of function, its break test.
parameters_more(c) ==
    IF c.panicked THEN c
    ELSE IF c.ret = 1 THEN parameters_loop(c)
    ELSE c

\* The parameter loop of function after parse_variable: c.ret is constant.
parameter_defined(c) ==
    IF c.panicked THEN c
    ELSE parameters_more(match_token(define_variable(c, c.ret), "Comma"))

\* The parameter loop of function.
parameters_loop(c) ==
    IF c.panicked THEN c
    ELSE IF c.h.functions[current_function(c)].arity = U8_MAX
    THEN [c EXCEPT !.panicked = TRUE]             \* u8 overflow of arity += 1
    ELSE parameter_defined(
           parse_variable([c EXCEPT !.h.functions[current_function(c)].arity = @ + 1],
                          "Expect parameter name."))

\* The while loop of block.
block_loop(c) ==
    IF c.panicked \/ check(c, "RightBrace") \/ check(c, "EOF") THEN c
    ELSE block_loop(declaration(c))

block(c) == consume(block_loop(c), "RightBrace", "Expect '}' after block.")

\* function, the parameter list: c is the compiler after consume(LeftParen).
parameters(c) ==
    IF c.panicked THEN c
    ELSE IF ~check(c, "RightParen") THEN parameters_loop(c)
    ELSE c

\* function after end_compiler: c.ret is the compiled function.
function_constant(c) ==
    IF c.panicked THEN c
    ELSE emit_operand(make_constant(c, ObjFunction(c.ret)), OpClosure)

\* function, the new ObjFunction and its CompilerState.
function_state(c) ==
    LET h1 == gc_heap_alloc(c.h, "functions", ObjFunction_new("Function", previous(c)))
    IN [c EXCEPT !.h = h1,
                 !.compiler_states =
                     Append(@, CompilerState_new(last_ptr(h1, "functions")))]

\* function up to the parameter list.
function_head(c) ==
    consume(begin_scope(function_state(c)), "LeftParen", "Expect '(' after function name.")

\* function from the parameter list on.
function_body(c) ==
    function_constant(end_compiler(block(
      consume(consume(c, "RightParen", "Expect ')' after parameters."),
              "LeftBrace", "Expect '{' before function body."))))

function(c) ==
    IF c.panicked THEN c
    ELSE function_body(parameters(function_head(c)))

\* fun_declaration after parse_variable: c.ret is global.
fun_defined(c) ==
    IF c.panicked THEN c
    ELSE define_variable(function(mark_initialized(c)), c.ret)

fun_declaration(c) == fun_defined(parse_variable(c, "Expect function name."))

\* for_statement, the initializer clause: c is the compiler after
\* match_token(Semicolon).
for_initializer(c) ==
    IF c.panicked \/ c.ret = 1 THEN c
    ELSE IF check(c, "Var") THEN var_declaration(advance(c))
    ELSE expression_statement(c)

\* for_statement, the condition clause: c is the compiler after
\* match_token(Semicolon); ret is exit_jump, -1 for None.
for_condition(c) ==
    IF c.panicked THEN c
    ELSE IF c.ret = 1 THEN [c EXCEPT !.ret = -1]
    ELSE emit_byte(emit_jump(consume(expression(c), "Semicolon",
                                     "Expect ';' after loop condition."),
                             OpJumpIfFalse),
                   OpPop)

\* for_statement, the increment clause from body_jump on: c.ret is body_jump;
\* ret is the new loop_start.
for_increment_clause(c, loop_start) ==
    IF c.panicked THEN c
    ELSE [patch_jump(
            emit_loop(
              consume(emit_byte(expression(c), OpPop),
                      "RightParen", "Expect ')' after for clauses."),
              loop_start),
            c.ret)
          EXCEPT !.ret = Len(current_chunk(c).code)]

\* for_statement, the increment clause: c is the compiler after
\* match_token(RightParen); ret is loop_start.
for_increment(c, loop_start) ==
    IF c.panicked THEN c
    ELSE IF c.ret = 1 THEN [c EXCEPT !.ret = loop_start]
    ELSE for_increment_clause(emit_jump(c, OpJump), loop_start)

\* for_statement after emit_loop: the exit jump is patched if there is one.
for_exit(c, exit_jump) ==
    IF c.panicked \/ exit_jump = -1 THEN c
    ELSE emit_byte(patch_jump(c, exit_jump), OpPop)

\* for_statement from the body on: c.ret is loop_start.
for_body(c, exit_jump) ==
    IF c.panicked THEN c
    ELSE end_scope(for_exit(emit_loop(statement(c), c.ret), exit_jump))

\* for_statement after the condition clause: c.ret is exit_jump.
for_after_condition(c, loop_start) ==
    IF c.panicked THEN c
    ELSE for_body(for_increment(match_token(c, "RightParen"), loop_start), c.ret)

\* for_statement after the initializer clause.
for_after_initializer(c) ==
    IF c.panicked THEN c
    ELSE for_after_condition(for_condition(match_token(c, "Semicolon")),
                             Len(current_chunk(c).code))

for_statement(c) ==
    for_after_initializer(
      for_initializer(
        match_token(consume(begin_scope(c), "LeftParen", "Expect '(' after 'for'."),
                    "Semicolon")))

\* if_statement, the else clause: c is the compiler after match_token(Else).
else_branch(c, else_jump) ==
    IF c.panicked THEN c
    ELSE IF c.ret = 1 THEN patch_jump(statement(c), else_jump)
    ELSE patch_jump(c, else_jump)

\* if_statement after the then branch: c.ret is else_jump.
then_done(c, then_jump) ==
    IF c.panicked THEN c
    ELSE else_branch(match_token(emit_byte(patch_jump(c, then_jump), OpPop), "Else"),
                     c.ret)

\* if_statement from the then branch on: c.ret is then_jump.
then_branch(c) ==
    IF c.panicked THEN c
    ELSE then_done(emit_jump(statement(emit_byte(c, OpPop)), OpJump), c.ret)

if_statement(c) ==
    then_branch(
      emit_jump(
        consume(expression(consume(c, "LeftParen", "Expect '(' after 'if'.")),
                "RightParen", "Expect ')' after condition."),
        OpJumpIfFalse))

\* return_statement, the if: c is the compiler after match_token(Semicolon).
return_value(c) ==
    IF c.panicked THEN c
    ELSE IF c.ret = 1 THEN emit_return(c)
    ELSE emit_byte(consume(expression(c), "Semicolon", "Expect ';' after return value."),
                   OpReturn)

return_statement(c) ==
    IF c.panicked THEN c
    ELSE IF current_chunk(c).function_type = "Script"
    THEN error(c, "Can't return from top-level code.")
    ELSE return_value(match_token(c, "Semicolon"))

\* while_statement from the body on: c.ret is exit_jump.
while_body(c, loop_start) ==
    IF c.panicked THEN c
    ELSE emit_byte(
           patch_jump(emit_loop(statement(emit_byte(c, OpPop)), loop_start), c.ret),
           OpPop)

while_statement(c) ==
    IF c.panicked THEN c
    ELSE while_body(
           emit_jump(
             consume(expression(consume(c, "LeftParen", "Expect '(' after 'while'.")),
                     "RightParen", "Expect ')' after condition."),
             OpJumpIfFalse),
           Len(current_chunk(c).code))

statement(c) ==
    CASE c.panicked -> c
      [] check(c, "Print") -> print_statement(advance(c))
      [] check(c, "For") -> for_statement(advance(c))
      [] check(c, "If") -> if_statement(advance(c))
      [] check(c, "Return") -> return_statement(advance(c))
      [] check(c, "While") -> while_statement(advance(c))
      [] check(c, "LeftBrace") -> end_scope(block(begin_scope(advance(c))))
      [] OTHER -> expression_statement(c)

\* The final if of declaration.
declaration_end(c) ==
    IF c.panicked THEN c
    ELSE IF c.panic_mode THEN synchronize(c)
    ELSE c

\* declaration up to its final if.
declaration_match(c) ==
    CASE c.panicked -> c
      [] check(c, "Fun") -> fun_declaration(advance(c))
      [] check(c, "Var") -> var_declaration(advance(c))
      [] OTHER -> statement(c)

declaration(c) == declaration_end(declaration_match(c))

\* The lengths the script's code has before each pass of compile's loop and
\* after the last: where the code of each top-level declaration starts.
RECURSIVE declaration_starts(_)
declaration_starts(c) ==
    IF c.panicked \/ check(c, "EOF") THEN {Len(current_chunk(c).code)}
    ELSE {Len(current_chunk(c).code)} \cup declaration_starts(declaration(c))

\* Compiler::new: the script function is allocated through the collector.
Compiler_new(toks, h) ==
    LET start == advance_to_start(toks, 1)
        h1 == gc_heap_alloc(h, "functions", ObjFunction_new("Script", ""))
    IN [toks |-> toks, cur |-> start, prev |-> start,
        had_error |-> FALSE, panic_mode |-> FALSE, errors |-> <<>>,
        compiler_states |-> <<CompilerState_new(last_ptr(h1, "functions"))>>,
        h |-> h1, ret |-> 0, panicked |-> FALSE]

\* The while loop of compile.
RECURSIVE compile_loop(_)
compile_loop(c) ==
    IF c.panicked \/ check(c, "EOF") THEN c ELSE compile_loop(declaration(c))

\* The result of compile; ret is the script function, or 0 for None.
compile_result(c) ==
    IF c.panicked \/ ~c.had_error THEN c ELSE [c EXCEPT !.ret = 0]

\* compile returning the function whether or not an error was reported.
compile_always_some(c) ==
    end_compiler(
      consume(match_token(compile_loop(c), "EOF"), "EOF", "Expect end of expression."))

compile(c) ==
    compile_result(
      end_compiler(
        consume(match_token(compile_loop(c), "EOF"), "EOF", "Expect end of expression.")))

(***************************************************************************)
(* The virtual machine (src/src/vm.rs).  A machine is the record           *)
(*   stack, stack_top, globals, frames, open_upvalues     the VM's fields  *)
(*   h                     the heap behind self.allocator                  *)
(*   pc                    "main" | "repl" | "run" | "exit" | "panic"      *)
(*   mode, line            main's mode, and repl's line buffer             *)
(*   result, exit_code     what the last interpret returned                *)
(*   output, errors, compile_errors     stdout and stderr                  *)
(*   ret                   the value the last value-returning method gave  *)
(* stack holds the written prefix of the fixed array; the slots above it   *)
(* still hold the initial Number(0.0).  Each method is an operator from    *)
(* machine to machine, and does nothing once the machine has left "run".   *)
(***************************************************************************)
VALUE_ARRAY_REPEAT_VALUE == Number(0, 1)

stack_get(m, i) == IF i < Len(m.stack) THEN m.stack[i + 1] ELSE VALUE_ARRAY_REPEAT_VALUE

stack_set(m, i, v) ==
    LET padded == IF i < Len(m.stack) THEN m.stack
                  ELSE m.stack \o [k \in 1..(i + 1 - Len(m.stack)) |->
                                      VALUE_ARRAY_REPEAT_VALUE]
    IN [m EXCEPT !.stack = [padded EXCEPT ![i + 1] = v]]

\* HashMap::insert and HashMap::remove on self.globals.
globals_insert(globals, name, value) ==
    [n \in DOMAIN globals \cup {name} |-> IF n = name THEN value ELSE globals[n]]

globals_remove(globals, name) == [n \in DOMAIN globals \ {name} |-> globals[n]]

\* A Rust panic: index out of bounds, arithmetic overflow, unwrap on None.
panic(m) == IF m.pc # "run" THEN m ELSE [m EXCEPT !.pc = "panic"]

\* interpret returns `result` to repl (which loops) or to run_file, which
\* calls exit or returns to main; main's return drops the collector.
interpret_return(m, result) ==
    IF m.pc # "run" THEN m
    ELSE IF m.mode = "repl" THEN [m EXCEPT !.result = result, !.pc = "repl"]
    ELSE [m EXCEPT !.result = result,
                   !.pc = "exit",
                   !.exit_code = CASE result = "CompileError" -> 65
                                   [] result = "RuntimeError" -> 70
                                   [] OTHER -> 0,
                   !.h = IF result = "Ok" THEN free_objects(@) ELSE @]

push_stack(m, value) ==
    IF m.pc # "run" THEN m
    ELSE IF m.stack_top >= STACK_MAX THEN panic(m)
    ELSE [stack_set(m, m.stack_top, value) EXCEPT !.stack_top = @ + 1]

\* ret is the popped value.
pop_stack(m) ==
    IF m.pc # "run" THEN m
    ELSE IF m.stack_top = 0 THEN panic(m)
    ELSE [m EXCEPT !.stack_top = @ - 1, !.ret = stack_get(m, m.stack_top - 1)]

can_peek(m, distance) == m.stack_top >= 1 + distance
peek(m, distance) == stack_get(m, m.stack_top - 1 - distance)

reset_stack(m) == [m EXCEPT !.stack_top = 0]

runtime_error(m, message) ==
    IF m.pc # "run" THEN m
    ELSE IF \E i \in 1..Len(m.frames) : m.frames[i].ip = 0 THEN panic(m)
    ELSE reset_stack([m EXCEPT !.errors = Append(@, message)])

frame(m) == m.frames[Len(m.frames)]
frame_function(m) == m.h.functions[m.h.closures[frame(m).closure].function]

\* CallFrame::read_byte; ret is the byte.
read_byte(m) ==
    IF m.pc # "run" THEN m
    ELSE IF m.frames = <<>> THEN panic(m)
    ELSE IF frame(m).ip >= Len(frame_function(m).code) THEN panic(m)
    ELSE [m EXCEPT !.frames[Len(m.frames)].ip = @ + 1,
                   !.ret = frame_function(m).code[frame(m).ip + 1]]

read_short(m) ==
    LET m1 == read_byte(m)
        m2 == read_byte(m1)
    IN IF m2.pc # "run" THEN m2 ELSE [m2 EXCEPT !.ret = m1.ret * 256 + m2.ret]

\* ret is the constant.
read_constant(m) ==
    LET m1 == read_byte(m)
    IN IF m1.pc # "run" THEN m1
       ELSE IF m1.ret >= Len(frame_function(m1).constants) THEN panic(m1)
       ELSE [m1 EXCEPT !.ret = frame_function(m1).constants[m1.ret + 1]]

\* ret is the string's contents.
read_string(m) ==
    LET m1 == read_constant(m)
    IN IF m1.pc # "run" THEN m1
       ELSE IF m1.ret.t # "ObjString" THEN panic(m1)
       ELSE [m1 EXCEPT !.ret = m1.h.strings[m1.ret.a]]

read_slot(m) ==
    LET m1 == read_byte(m)
    IN IF m1.pc # "run" THEN m1 ELSE [m1 EXCEPT !.ret = frame(m1).first_slot + m1.ret]

inc_ip(m, offset) ==
    IF m.pc # "run" THEN m ELSE [m EXCEPT !.frames[Len(m.frames)].ip = @ + offset]

dec_ip(m, offset) ==
    IF m.pc # "run" THEN m
    ELSE IF offset > frame(m).ip THEN panic(m)
    ELSE [m EXCEPT !.frames[Len(m.frames)].ip = @ - offset]

(***************************************************************************)
(* The VM's side of garbage collection.                                    *)
(***************************************************************************)
heap_kind(v) ==
    CASE v.t = "ObjString" -> "strings"
      [] v.t = "ObjFunction" -> "functions"
      [] v.t = "ObjNative" -> "natives"
      [] v.t = "ObjClosure" -> "closures"
      [] OTHER -> "none"

is_object(v) == heap_kind(v) # "none"
object_ref(v) == <<heap_kind(v), v.a>>

\* VM::mark_value: sets is_marked; nothing is traced.
mark_value(h, v) ==
    IF is_object(v) THEN [h EXCEPT !.marked = @ \cup {object_ref(v)}] ELSE h

RECURSIVE mark_values(_, _, _)
mark_values(h, vs, i) ==
    IF i > Len(vs) THEN h ELSE mark_values(mark_value(h, vs[i]), vs, i + 1)

\* The open-upvalue list from `upvalue` on, as pointers.
RECURSIVE upvalue_list(_, _)
upvalue_list(h, upvalue) ==
    IF upvalue = 0 THEN <<>>
    ELSE <<upvalue>> \o upvalue_list(h, h.upvalues[upvalue].next_upvalue)

mark_roots(m) ==
    LET on_stack == [i \in 1..m.stack_top |-> stack_get(m, i - 1)]
        names == DOMAIN m.globals
        in_frames == {<<"closures", m.frames[i].closure>> : i \in 1..Len(m.frames)}
        open == upvalue_list(m.h, m.open_upvalues)
        h1 == mark_values(m.h, on_stack, 1)
        h2 == [h1 EXCEPT !.marked = @ \cup {object_ref(m.globals[n]) :
                                              n \in {k \in names : is_object(m.globals[k])}}]
        h3 == [h2 EXCEPT !.marked = @ \cup in_frames]
    IN [m EXCEPT !.h = [h3 EXCEPT !.marked = @ \cup {<<"upvalues", open[i]>> :
                                                       i \in 1..Len(open)}]]

\* VM::collect_garbage: marks the roots and stops.
collect_garbage(m) == mark_roots(m)

\* VM::heap_alloc; ret is the pointer.
heap_alloc(m, kind, obj) ==
    IF m.pc # "run" THEN m
    ELSE LET m1 == IF DebugStressGc THEN collect_garbage(m) ELSE m
             h1 == gc_heap_alloc(m1.h, kind, obj)
         IN [m1 EXCEPT !.h = h1, !.ret = last_ptr(h1, kind)]

ObjClosure_new(h, fn) ==
    [function |-> fn,
     upvalues |-> [i \in 1..h.functions[fn].upvalue_count |-> 0],
     upvalue_count |-> h.functions[fn].upvalue_count]

ObjUpvalue_new(location) ==
    [location |-> location, next_upvalue |-> 0, closed_some |-> FALSE, closed |-> Nil]

(***************************************************************************)
(* Upvalues.                                                               *)
(***************************************************************************)
\* The search loop of capture_upvalue: <<prev_upvalue, upvalue>> where it stops.
RECURSIVE capture_search(_, _, _, _)
capture_search(h, prev_upvalue, upvalue, location) ==
    IF upvalue = 0 THEN <<prev_upvalue, upvalue>>
    ELSE IF h.upvalues[upvalue].location <= location THEN <<prev_upvalue, upvalue>>
    ELSE capture_search(h, upvalue, h.upvalues[upvalue].next_upvalue, location)

\* capture_upvalue without the search for an open upvalue of the location.
capture_upvalue_fresh(m, location) ==
    IF m.pc # "run" THEN m
    ELSE LET m1 == heap_alloc(m, "upvalues",
                              [ObjUpvalue_new(location) EXCEPT
                                  !.next_upvalue = m.open_upvalues])
         IN [m1 EXCEPT !.open_upvalues = m1.ret]

\* capture_upvalue linking a new upvalue at the head of the open list
\* wherever the search stopped.
capture_upvalue_at_head(m, location) ==
    IF m.pc # "run" THEN m
    ELSE LET found == capture_search(m.h, 0, m.open_upvalues, location)
             upvalue == found[2]
         IN IF upvalue # 0 /\ m.h.upvalues[upvalue].location = location
            THEN [m EXCEPT !.ret = upvalue]
            ELSE LET m1 == heap_alloc(m, "upvalues",
                                      [ObjUpvalue_new(location) EXCEPT
                                          !.next_upvalue = m.open_upvalues])
                 IN [m1 EXCEPT !.open_upvalues = m1.ret]

\* ret is the upvalue.
capture_upvalue(m, location) ==
    IF m.pc # "run" THEN m
    ELSE LET found == capture_search(m.h, 0, m.open_upvalues, location)
             prev_upvalue == found[1]
             upvalue == found[2]
         IN IF upvalue # 0 /\ m.h.upvalues[upvalue].location = location
            THEN [m EXCEPT !.ret = upvalue]
            ELSE LET m1 == heap_alloc(m, "upvalues",
                                      [ObjUpvalue_new(location) EXCEPT
                                          !.next_upvalue = upvalue])
                     new_upvalue_ptr == m1.ret
                 IN IF prev_upvalue # 0
                    THEN [m1 EXCEPT !.h.upvalues[prev_upvalue].next_upvalue =
                                        new_upvalue_ptr]
                    ELSE [m1 EXCEPT !.open_upvalues = new_upvalue_ptr]

\* close_upvalues leaving the upvalue whose location is last_location open.
RECURSIVE close_upvalues_above(_, _)
close_upvalues_above(m, last_location) ==
    IF m.pc # "run" \/ m.open_upvalues = 0 THEN m
    ELSE LET upvalue == m.open_upvalues
             location == m.h.upvalues[upvalue].location
         IN IF location <= last_location THEN m
            ELSE IF location >= STACK_MAX THEN panic(m)
            ELSE close_upvalues_above(
                   [m EXCEPT !.h.upvalues[upvalue].closed_some = TRUE,
                             !.h.upvalues[upvalue].closed = stack_get(m, location),
                             !.open_upvalues = m.h.upvalues[upvalue].next_upvalue],
                   last_location)

RECURSIVE close_upvalues(_, _)
close_upvalues(m, last_location) ==
    IF m.pc # "run" \/ m.open_upvalues = 0 THEN m
    ELSE LET upvalue == m.open_upvalues
             location == m.h.upvalues[upvalue].location
         IN IF location < last_location THEN m
            ELSE IF location >= STACK_MAX THEN panic(m)
            ELSE close_upvalues(
                   [m EXCEPT !.h.upvalues[upvalue].closed_some = TRUE,
                             !.h.upvalues[upvalue].closed = stack_get(m, location),
                             !.open_upvalues = m.h.upvalues[upvalue].next_upvalue],
                   last_location)

(***************************************************************************)
(* Calls.                                                                  *)
(***************************************************************************)
\* call without the comparison of arg_count with the arity.
call_any_arity(m, closure, arg_count) ==
    IF m.pc # "run" THEN m
    ELSE IF Len(m.frames) = FRAMES_MAX
    THEN [runtime_error(m, "Stack overflow.") EXCEPT !.ret = 0]
    ELSE IF m.stack_top < arg_count + 1 THEN panic(m)
    ELSE [m EXCEPT !.frames = Append(@, [closure |-> closure,
                                         first_slot |-> m.stack_top - arg_count - 1,
                                         ip |-> 0]),
                   !.ret = 1]

\* call whose frame limit is tested one frame late.
call_late_limit(m, closure, arg_count) ==
    IF m.pc # "run" THEN m
    ELSE LET arity == m.h.functions[m.h.closures[closure].function].arity
         IN IF arg_count # arity
            THEN [runtime_error(m, "Expected " \o ToString(arity) \o
                                   " arguments but got " \o ToString(arg_count))
                    EXCEPT !.ret = 0]
            ELSE IF Len(m.frames) > FRAMES_MAX
            THEN [runtime_error(m, "Stack overflow.") EXCEPT !.ret = 0]
            ELSE IF m.stack_top < arg_count + 1 THEN panic(m)
            ELSE [m EXCEPT !.frames = Append(@, [closure |-> closure,
                                                 first_slot |-> m.stack_top - arg_count - 1,
                                                 ip |-> 0]),
                           !.ret = 1]

\* ret is 1 for true, 0 for false.
call(m, closure, arg_count) ==
    IF m.pc # "run" THEN m
    ELSE LET arity == m.h.functions[m.h.closures[closure].function].arity
         IN IF arg_count # arity
            THEN [runtime_error(m, "Expected " \o ToString(arity) \o
                                   " arguments but got " \o ToString(arg_count))
                    EXCEPT !.ret = 0]
            ELSE IF Len(m.frames) = FRAMES_MAX
            THEN [runtime_error(m, "Stack overflow.") EXCEPT !.ret = 0]
            ELSE IF m.stack_top < arg_count + 1 THEN panic(m)
            ELSE [m EXCEPT !.frames = Append(@, [closure |-> closure,
                                                 first_slot |-> m.stack_top - arg_count - 1,
                                                 ip |-> 0]),
                           !.ret = 1]

\* `time` is SystemTime::now() in milliseconds.
call_native(m, native, arg_count, time) ==
    IF m.pc # "run" THEN m
    ELSE IF m.stack_top < arg_count + 1 THEN panic(m)
    ELSE push_stack([m EXCEPT !.stack_top = @ - (arg_count + 1)], Number(time, 1))

call_value(m, callee, arg_count, time) ==
    IF m.pc # "run" THEN m
    ELSE CASE callee.t = "ObjNative" ->
                [call_native(m, callee.a, arg_count, time) EXCEPT !.ret = 1]
           [] callee.t = "ObjClosure" -> call(m, callee.a, arg_count)
           [] OTHER -> [runtime_error(m, "Can only call functions and classes.")
                          EXCEPT !.ret = 0]

define_native(m, name, native_function) ==
    LET insert(m4) ==
            IF m4.pc # "run" THEN m4
            ELSE IF stack_get(m4, 0).t # "ObjString" THEN panic(m4)
            ELSE pop_stack(pop_stack(
                   [m4 EXCEPT !.globals =
                       globals_insert(@, m4.h.strings[stack_get(m4, 0).a],
                                      stack_get(m4, 1))]))
        pushed_native(m3) == insert(push_stack(m3, ObjNative(m3.ret)))
        pushed_name(m2) ==
            pushed_native(heap_alloc(m2, "natives",
                                     [native_function |-> native_function]))
        allocated_name(m1) == pushed_name(push_stack(m1, ObjString(m1.ret)))
    IN allocated_name(heap_alloc(m, "strings", name))

concatenate(m) ==
    LET m1 == pop_stack(m)
        m2 == pop_stack(m1)
        b == m1.ret
        a == m2.ret
    IN IF m2.pc # "run" THEN m2
       ELSE IF ~(a.t = "ObjString" /\ b.t = "ObjString")
       THEN interpret_return(runtime_error(m2, "Concatenation operands must be strings."),
                             "CompileError")
       ELSE LET m3 == heap_alloc(m2, "strings",
                                 m2.h.strings[a.a] \o m2.h.strings[b.a])
            IN push_stack(m3, ObjString(m3.ret))

(***************************************************************************)
(* The arms of the match in VM::run, one operator per opcode.  Each takes  *)
(* the machine after read_byte fetched the opcode.                         *)
(***************************************************************************)
run_Constant(m) ==
    LET m1 == read_constant(m) IN push_stack(m1, m1.ret)

run_Negate(m) ==
    IF ~can_peek(m, 0) THEN panic(m)
    ELSE LET value == peek(m, 0)
         IN IF value.t = "Number" THEN push_stack(m, f64_neg(value))
            ELSE interpret_return(runtime_error(m, "Operand must be a number."),
                                  "RuntimeError")

\* The Return arm without the call of close_upvalues.
run_Return_open(m) ==
    LET m1 == pop_stack(m)
        result == m1.ret
    IN IF m1.pc # "run" THEN m1
       ELSE IF m1.frames = <<>> THEN panic(m1)
       ELSE LET popped == frame(m1)
                m2 == [m1 EXCEPT !.frames = SubSeq(@, 1, Len(@) - 1)]
            IN IF m2.frames = <<>>
               THEN interpret_return(pop_stack(m2), "Ok")
               ELSE push_stack([m2 EXCEPT !.stack_top = popped.first_slot], result)

run_Return(m) ==
    LET m1 == pop_stack(m)
        result == m1.ret
    IN IF m1.pc # "run" THEN m1
       ELSE IF m1.frames = <<>> THEN panic(m1)
       ELSE LET popped == frame(m1)
                m2 == close_upvalues([m1 EXCEPT !.frames = SubSeq(@, 1, Len(@) - 1)],
                                     popped.first_slot)
            IN IF m2.frames = <<>>
               THEN interpret_return(pop_stack(m2), "Ok")
               ELSE push_stack([m2 EXCEPT !.stack_top = popped.first_slot], result)

run_Nil(m) == push_stack(m, Nil)
run_True(m) == push_stack(m, Bool(TRUE))
run_False(m) == push_stack(m, Bool(FALSE))

\* binary_op!: op names the Rust operator.
binary_op(m, op) ==
    IF ~can_peek(m, 1) THEN panic(m)
    ELSE IF ~(peek(m, 0).t = "Number" /\ peek(m, 1).t = "Number")
    THEN interpret_return(runtime_error(m, "Operands must be numbers."), "RuntimeError")
    ELSE LET m1 == pop_stack(m)
             m2 == pop_stack(m1)
             b == m1.ret
             a == m2.ret
         IN push_stack(m2, CASE op = "+" -> f64_add(a, b)
                             [] op = "-" -> f64_sub(a, b)
                             [] op = "*" -> f64_mul(a, b)
                             [] op = "/" -> f64_div(a, b)
                             [] op = ">" -> Bool(f64_gt(a, b))
                             [] op = "<" -> Bool(f64_lt(a, b)))

\* The Add arm taking the concatenation path on the top value alone.
run_Add_top_string(m) ==
    IF ~can_peek(m, 1) THEN panic(m)
    ELSE IF peek(m, 0).t = "ObjString"
    THEN concatenate(m)
    ELSE binary_op(m, "+")

run_Add(m) ==
    IF ~can_peek(m, 1) THEN panic(m)
    ELSE IF peek(m, 0).t = "ObjString" /\ peek(m, 1).t = "ObjString"
    THEN concatenate(m)
    ELSE binary_op(m, "+")

run_Subtract(m) == binary_op(m, "-")
run_Multiply(m) == binary_op(m, "*")
run_Divide(m) == binary_op(m, "/")
run_Greater(m) == binary_op(m, ">")
run_Less(m) == binary_op(m, "<")

run_Not(m) ==
    LET m1 == pop_stack(m) IN push_stack(m1, Bool(is_falsey(m1.ret)))

run_Equal(m) ==
    LET m1 == pop_stack(m)
        m2 == pop_stack(m1)
    IN push_stack(m2, Bool(value_eq(m1.ret, m2.ret)))

out_text(s) == [k |-> "text", s |-> s, a |-> 0, b |-> 0]
out_number(v) == [k |-> "number", s |-> "", a |-> v.a, b |-> v.b]

\* impl Display for Value and for the objects.
display(h, v) ==
    LET fn_name(f) == IF h.functions[f].name = "" THEN "<script>" ELSE h.functions[f].name
    IN CASE v.t = "Bool" -> out_text(IF v.a = 1 THEN "true" ELSE "false")
         [] v.t = "Nil" -> out_text("nil")
         [] v.t = "Number" -> out_number(v)
         [] v.t = "ObjString" -> out_text(h.strings[v.a])
         [] v.t = "ObjFunction" -> out_text(fn_name(v.a))
         [] v.t = "ObjNative" -> out_text("<native fn>")
         [] v.t = "ObjClosure" -> out_text(fn_name(h.closures[v.a].function))

run_Print(m) ==
    LET m1 == pop_stack(m)
    IN IF m1.pc # "run" THEN m1
       ELSE [m1 EXCEPT !.output = Append(@, display(m1.h, m1.ret))]

run_Pop(m) == pop_stack(m)

run_DefineGlobal(m) ==
    LET m1 == read_string(m)
    IN IF m1.pc # "run" THEN m1
       ELSE IF ~can_peek(m1, 0) THEN panic(m1)
       ELSE pop_stack([m1 EXCEPT !.globals = globals_insert(@, m1.ret, peek(m1, 0))])

run_GetGlobal(m) ==
    LET m1 == read_string(m)
    IN IF m1.pc # "run" THEN m1
       ELSE IF m1.ret \in DOMAIN m1.globals
       THEN push_stack(m1, m1.globals[m1.ret])
       ELSE interpret_return(
              runtime_error(m1, "Undefined variable " \o m1.ret \o "."), "RuntimeError")

\* The SetGlobal arm without the removal of the binding insert created.
run_SetGlobal_insert(m) ==
    LET m1 == read_string(m)
        name == m1.ret
    IN IF m1.pc # "run" THEN m1
       ELSE IF ~can_peek(m1, 0) THEN panic(m1)
       ELSE LET old_some == name \in DOMAIN m1.globals
                m2 == [m1 EXCEPT !.globals = globals_insert(@, name, peek(m1, 0))]
            IN IF old_some THEN m2
               ELSE interpret_return(
                      runtime_error(m2, "Undefined variable " \o name \o "."),
                      "RuntimeError")

run_SetGlobal(m) ==
    LET m1 == read_string(m)
        name == m1.ret
    IN IF m1.pc # "run" THEN m1
       ELSE IF ~can_peek(m1, 0) THEN panic(m1)
       ELSE LET old_some == name \in DOMAIN m1.globals
                m2 == [m1 EXCEPT !.globals = globals_insert(@, name, peek(m1, 0))]
            IN IF old_some THEN m2
               ELSE interpret_return(
                      runtime_error([m2 EXCEPT !.globals = globals_remove(@, name)],
                                    "Undefined variable " \o name \o "."),
                      "RuntimeError")

run_GetLocal(m) ==
    LET m1 == read_slot(m)
    IN IF m1.pc # "run" THEN m1
       ELSE IF m1.ret >= STACK_MAX THEN panic(m1)
       ELSE push_stack(m1, stack_get(m1, m1.ret))

run_SetLocal(m) ==
    LET m1 == read_slot(m)
        slot == m1.ret
    IN IF m1.pc # "run" THEN m1
       ELSE IF slot >= STACK_MAX THEN panic(m1)
       ELSE LET m2 == push_stack(m1, stack_get(m1, slot))
            IN IF m2.pc # "run" THEN m2 ELSE stack_set(m2, slot, peek(m2, 0))

\* JumpIfFalse popping the condition it tested.
run_JumpIfFalse_popping(m) ==
    LET m1 == read_short(m)
    IN IF m1.pc # "run" THEN m1
       ELSE IF ~can_peek(m1, 0) THEN panic(m1)
       ELSE IF is_falsey(peek(m1, 0)) THEN pop_stack(inc_ip(m1, m1.ret))
       ELSE pop_stack(m1)

run_JumpIfFalse(m) ==
    LET m1 == read_short(m)
    IN IF m1.pc # "run" THEN m1
       ELSE IF ~can_peek(m1, 0) THEN panic(m1)
       ELSE IF is_falsey(peek(m1, 0)) THEN inc_ip(m1, m1.ret) ELSE m1

run_Jump(m) ==
    LET m1 == read_short(m) IN inc_ip(m1, m1.ret)

run_Loop(m) ==
    LET m1 == read_short(m) IN dec_ip(m1, m1.ret)

run_Call(m, time) ==
    LET m1 == read_byte(m)
        arg_count == m1.ret
    IN IF m1.pc # "run" THEN m1
       ELSE IF ~can_peek(m1, arg_count) THEN panic(m1)
       ELSE LET m2 == call_value(m1, peek(m1, arg_count), arg_count, time)
            IN IF m2.pc = "run" /\ m2.ret = 0
               THEN interpret_return(m2, "RuntimeError")
               ELSE m2

\* The loop of the Closure arm capturing a stack slot for every descriptor,
\* whatever its is_local byte.
RECURSIVE closure_upvalues_all_local(_, _, _)
closure_upvalues_all_local(m, closure, i) ==
    IF m.pc # "run" \/ i >= m.h.closures[closure].upvalue_count THEN m
    ELSE LET m1 == read_byte(m)
             m2 == read_byte(m1)
             index == m2.ret
             m3 == IF m2.pc # "run" THEN m2
                   ELSE capture_upvalue(m2, frame(m2).first_slot + index)
         IN IF m3.pc # "run" THEN m3
            ELSE closure_upvalues_all_local(
                   [m3 EXCEPT !.h.closures[closure].upvalues[i + 1] = m3.ret],
                   closure, i + 1)

\* The for loop of the Closure arm, from upvalue i (0-based) on.
RECURSIVE closure_upvalues_loop(_, _, _)
closure_upvalues_loop(m, closure, i) ==
    IF m.pc # "run" \/ i >= m.h.closures[closure].upvalue_count THEN m
    ELSE LET m1 == read_byte(m)
             is_local == m1.ret
             m2 == read_byte(m1)
             index == m2.ret
             enclosing == m2.h.closures[frame(m2).closure]
             m3 == IF m2.pc # "run" THEN m2
                   ELSE IF is_local = 1
                   THEN capture_upvalue(m2, frame(m2).first_slot + index)
                   ELSE IF index >= Len(enclosing.upvalues) THEN panic(m2)
                   ELSE [m2 EXCEPT !.ret = enclosing.upvalues[index + 1]]
         IN IF m3.pc # "run" THEN m3
            ELSE closure_upvalues_loop(
                   [m3 EXCEPT !.h.closures[closure].upvalues[i + 1] = m3.ret],
                   closure, i + 1)

run_Closure(m) ==
    LET m1 == read_constant(m)
    IN IF m1.pc # "run" THEN m1
       ELSE IF m1.ret.t # "ObjFunction" THEN panic(m1)
       ELSE LET m2 == heap_alloc(m1, "closures", ObjClosure_new(m1.h, m1.ret.a))
                closure == m2.ret
            IN closure_upvalues_loop(push_stack(m2, ObjClosure(closure)), closure, 0)

\* <<ok, upvalue>>: the current closure's upvalues[slot]; a null or missing
\* entry is a fault.
current_upvalue(m, slot) ==
    LET ups == m.h.closures[frame(m).closure].upvalues
    IN IF slot >= Len(ups) THEN <<FALSE, 0>>
       ELSE IF ups[slot + 1] = 0 THEN <<FALSE, 0>>
       ELSE <<TRUE, ups[slot + 1]>>

run_GetUpvalue(m) ==
    LET m1 == read_byte(m)
        found == current_upvalue(m1, m1.ret)
        upvalue == m1.h.upvalues[found[2]]
    IN IF m1.pc # "run" THEN m1
       ELSE IF ~found[1] THEN panic(m1)
       ELSE IF upvalue.closed_some THEN push_stack(m1, upvalue.closed)
       ELSE IF upvalue.location >= STACK_MAX THEN panic(m1)
       ELSE push_stack(m1, stack_get(m1, upvalue.location))

run_SetUpvalue(m) ==
    LET m1 == read_byte(m)
        found == current_upvalue(m1, m1.ret)
        upvalue == m1.h.upvalues[found[2]]
    IN IF m1.pc # "run" THEN m1
       ELSE IF ~can_peek(m1, 0) \/ ~found[1] THEN panic(m1)
       ELSE IF upvalue.closed_some
       THEN [m1 EXCEPT !.h.upvalues[found[2]].closed = peek(m1, 0)]
       ELSE IF upvalue.location >= STACK_MAX THEN panic(m1)
       ELSE stack_set(m1, upvalue.location, peek(m1, 0))

run_CloseUpvalue(m) ==
    IF m.stack_top = 0 THEN panic(m)
    ELSE pop_stack(close_upvalues(m, m.stack_top - 1))

(***************************************************************************)
(* VM::interpret up to the call of run.  interpret_compiled is what        *)
(* interpret does with the compiler's result.                              *)
(***************************************************************************)
interpret_compiled(m, c) ==
    LET m1 == [m EXCEPT !.h = c.h, !.compile_errors = @ \o c.errors]
        closure(m2) ==
            IF m2.pc # "run" THEN m2
            ELSE LET h3 == gc_heap_alloc(m2.h, "closures", ObjClosure_new(m2.h, c.ret))
                     obj_closure == last_ptr(h3, "closures")
                 IN call(push_stack(pop_stack([m2 EXCEPT !.h = h3]),
                                    ObjClosure(obj_closure)),
                         obj_closure, 0)
    IN IF c.panicked THEN panic(m1)
       ELSE IF c.ret = 0 THEN interpret_return(m1, "CompileError")
       ELSE closure(push_stack(m1, ObjFunction(c.ret)))

\* interpret after define_native: the compiler is built and run.
interpret_source(m, source) ==
    IF m.pc # "run" THEN m
    ELSE interpret_compiled(m, compile(Compiler_new(source, m.h)))

\* interpret before the compiler is built.
interpret_start(m) ==
    define_native([m EXCEPT !.pc = "run", !.result = "None"], "clock", "Clock")

interpret(m, source) == interpret_source(interpret_start(m), source)

(***************************************************************************)
(* Inputs: source texts as lexeme sequences.                               *)
(***************************************************************************)
\* Scenario 1 of the specification: print 1 + 2 * 3;
SrcArith == <<"print", "1", "+", "2", "*", "3", ";">>

\* Scenario 2: var a = "foo"; var b = "bar"; print a + b;
SrcConcat ==
    <<"var", "a", "=", "'foo'", ";", "var", "b", "=", "'bar'", ";",
      "print", "a", "+", "b", ";">>

\* Scenario 3: var x = 0; for (var i = 0; i < 5; i = i + 1) { x = x + i; } print x;
SrcFor ==
    <<"var", "x", "=", "0", ";",
      "for", "(", "var", "i", "=", "0", ";", "i", "<", "5", ";",
                  "i", "=", "i", "+", "1", ")",
      "{", "x", "=", "x", "+", "i", ";", "}",
      "print", "x", ";">>

\* Scenario 4: makeCounter.
SrcCounter ==
    <<"fun", "makeCounter", "(", ")", "{",
        "var", "n", "=", "0", ";",
        "fun", "c", "(", ")", "{", "n", "=", "n", "+", "1", ";", "return", "n", ";", "}",
        "return", "c", ";", "}",
      "var", "c", "=", "makeCounter", "(", ")", ";",
      "print", "c", "(", ")", ";", "print", "c", "(", ")", ";",
      "print", "c", "(", ")", ";">>

\* Scenario 5: if (!(1 == 2) and (3 <= 3 or false)) print "ok"; else print "no";
SrcLogic ==
    <<"if", "(", "!", "(", "1", "==", "2", ")", "and",
                 "(", "3", "<=", "3", "or", "false", ")", ")",
      "print", "'foo'", ";", "else", "print", "'bar'", ";">>

\* Scenario 6: fun f() { return; } print f(); print f;
SrcReturnNil ==
    <<"fun", "f", "(", ")", "{", "return", ";", "}",
      "print", "f", "(", ")", ";", "print", "f", ";">>

\* 1 + "a";
SrcAddMixed == <<"1", "+", "'a'", ";">>

\* print undefined;
SrcUndefined == <<"print", "undefined", ";">>

\* fun f() { f(); } f();
SrcRecurse ==
    <<"fun", "f", "(", ")", "{", "f", "(", ")", ";", "}", "f", "(", ")", ";">>

\* fun g(a, b, c, d, e, p, q, r) { g(a, b, c, d, e, p, q, r); } g(1, 1, 1, 1, 1, 1, 1, 1);
SrcRecurseWide ==
    <<"fun", "g", "(", "a", ",", "b", ",", "c", ",", "d", ",", "e", ",", "p", ",",
                       "q", ",", "r", ")", "{",
        "g", "(", "a", ",", "b", ",", "c", ",", "d", ",", "e", ",", "p", ",",
                  "q", ",", "r", ")", ";", "}",
      "g", "(", "1", ",", "1", ",", "1", ",", "1", ",", "1", ",", "1", ",",
                "1", ",", "1", ")", ";">>

\* { var a = 1; { var b = a; print b; } print a; }
SrcBlocks ==
    <<"{", "var", "a", "=", "1", ";",
           "{", "var", "b", "=", "a", ";", "print", "b", ";", "}",
           "print", "a", ";", "}">>

\* { var a = 1; fun f() { print a; } f(); }
SrcCapture ==
    <<"{", "var", "a", "=", "1", ";",
           "fun", "f", "(", ")", "{", "print", "a", ";", "}",
           "f", "(", ")", ";", "}">>

\* var n = 3; while (n > 0) { print n; n = n - 1; } print !(n == 0);
SrcWhile ==
    <<"var", "n", "=", "3", ";",
      "while", "(", "n", ">", "0", ")", "{", "print", "n", ";",
                    "n", "=", "n", "-", "1", ";", "}",
      "print", "!", "(", "n", "==", "0", ")", ";">>

\* print clock() / 2 > 0; print true; print false; print nil;
SrcClock ==
    <<"print", "clock", "(", ")", "/", "2", ">", "0", ";",
      "print", "true", ";", "print", "false", ";", "print", "nil", ";">>

\* -1;
SrcNegate == <<"-", "1", ";">>

\* fun h(a) { return a; } h();
SrcArity ==
    <<"fun", "h", "(", "a", ")", "{", "return", "a", ";", "}", "h", "(", ")", ";">>

\* nil();
SrcCallNil == <<"nil", "(", ")", ";">>

\* undefined = 1;
SrcSetUndefined == <<"undefined", "=", "1", ";">>

\* print 1 +;
SrcSyntax == <<"print", "1", "+", ";">>

\* fun h(a, b) { print a; print b; } h(1, 2);
SrcParams ==
    <<"fun", "h", "(", "a", ",", "b", ")", "{", "print", "a", ";", "print", "b", ";", "}",
      "h", "(", "1", ",", "2", ")", ";">>

\* { var a = 1; var a = 2; }
SrcRedeclare ==
    <<"{", "var", "a", "=", "1", ";", "var", "a", "=", "2", ";", "}">>

\* { var a = 1; { var a = 2; print a; } print a; }
SrcShadow ==
    <<"{", "var", "a", "=", "1", ";",
           "{", "var", "a", "=", "2", ";", "print", "a", ";", "}",
           "print", "a", ";", "}">>

\* a * b = c;
SrcInvalidTarget == <<"a", "*", "b", "=", "c", ";">>

\* if (true) print 1; else print 2; if (false) print 3; else print 4;
\* if (false) print 5; if (true) print 6; print 7;
SrcIfPaths ==
    <<"if", "(", "true", ")", "print", "1", ";", "else", "print", "2", ";",
      "if", "(", "false", ")", "print", "3", ";", "else", "print", "4", ";",
      "if", "(", "false", ")", "print", "5", ";",
      "if", "(", "true", ")", "print", "6", ";",
      "print", "7", ";">>

\* var i = 0; while (i < 2) { if (i == 0) print 0; else print 1; i = i + 1; }
\* while (false) print 3; print i;
SrcWhileIf ==
    <<"var", "i", "=", "0", ";",
      "while", "(", "i", "<", "2", ")", "{",
          "if", "(", "i", "==", "0", ")", "print", "0", ";", "else", "print", "1", ";",
          "i", "=", "i", "+", "1", ";", "}",
      "while", "(", "false", ")", "print", "3", ";",
      "print", "i", ";">>

ScenarioFiles ==
    {SrcArith, SrcConcat, SrcFor, SrcCounter, SrcLogic, SrcReturnNil, SrcAddMixed,
     SrcUndefined, SrcRecurse, SrcRecurseWide, SrcBlocks, SrcCapture, SrcWhile,
     SrcClock, SrcNegate, SrcArity, SrcCallNil, SrcSetUndefined, SrcSyntax,
     SrcParams, SrcRedeclare, SrcShadow, SrcInvalidTarget, SrcIfPaths,
     SrcWhileIf}

\* Arithmetic expressions: every token sequence of n tokens over the
\* literals, + - * /, unary minus and parentheses that is an expression.
ExprLiterals == {"1", "2", "3"}
ExprOperators == {"+", "-", "*", "/"}

WellFormed[n \in 1..(MaxExprLen + 1)] ==
    IF n = 1 THEN {<<l>> : l \in ExprLiterals}
    ELSE {<<"-">> \o e : e \in WellFormed[n - 1]}
         \cup (IF n >= 3 THEN {<<"(">> \o e \o <<")">> : e \in WellFormed[n - 2]}
               ELSE {})
         \cup UNION {{l \o <<o>> \o r : l \in WellFormed[k], o \in ExprOperators,
                                         r \in WellFormed[n - 1 - k]} :
                     k \in 1..(n - 2)}

Expressions == UNION {WellFormed[n] : n \in 1..MaxExprLen}
ExprFiles == {<<"print">> \o e \o <<";">> : e \in Expressions}

\* Logical expressions over literals: print a op b op c; and, with a right
\* operand that assigns, var x = 0; print a op (x = 2); print x;
LogicOperands == {"true", "false", "nil", "1"}
LogicOperators == {"and", "or"}

LogicChainFiles ==
    {<<"print", a, op1, b, op2, c, ";">> :
        a \in LogicOperands, op1 \in LogicOperators, b \in LogicOperands,
        op2 \in LogicOperators, c \in LogicOperands}

LogicAssignFiles ==
    {<<"var", "x", "=", "0", ";", "print", a, op, "(", "x", "=", "2", ")", ";",
       "print", "x", ";">> : a \in LogicOperands, op \in LogicOperators}

Files == ScenarioFiles \cup ExprFiles \cup LogicChainFiles \cup LogicAssignFiles

\* Token sequences of up to MaxTokens tokens, most of them not programs.
TokenAlphabet == {"print", "var", "a", "1", "+", ";", "@", "{", "}"}
TokenFiles == UNION {[1..n -> TokenAlphabet] : n \in 1..MaxTokens}

\* print + 1 @ ; print ; var a = 1 ;
SrcErrors ==
    <<"print", "+", "1", "@", ";", "print", ";", "var", "a", "=", "1", ";">>

\* The files compiled one declaration at a time.
CompileFiles == ScenarioFiles \cup TokenFiles \cup {SrcErrors}

\* The lines typed at the REPL.
ReplLines ==
    {<<"var", "a", "=", "1", ";">>,
     <<"print", "a", ";">>,
     <<"a", "=", "a", "+", "1", ";">>,
     <<"print", "-", "2", ";">>,
     <<"var", "clock", "=", "1", ";">>,
     <<"var", "=", ";">>}

ClockTimes == {1000, 2000}

(***************************************************************************)
(* Assembled programs.  compiler.rs emits Closure without upvalue operands *)
(* and never emits GetUpvalue, SetUpvalue or CloseUpvalue, so the upvalue  *)
(* arms of VM::run are driven by functions assembled by hand, as the       *)
(* specification describes the compiler's output for a captured local.     *)
(* An assembled program is the functions and strings it adds to the heap   *)
(* after define_native (whose "clock" is string 1); function 1 is the      *)
(* script.                                                                 *)
(***************************************************************************)
AssembledFunction(function_type, name, upvalue_count, constants, code) ==
    [function_type |-> function_type, arity |-> 0, code |-> code,
     constants |-> constants, name |-> name, upvalue_count |-> upvalue_count]

\* var s; var g;
\* { var a = 1; fun set() { a = a + 1; } fun get() { print a; }
\*   set(); get(); s = set; g = get; }
\* s(); g();
AsmShared ==
    [strings |-> <<"s", "g">>,
     functions |-> <<
       AssembledFunction("Script", "", 0,
         <<ObjString(2), ObjString(3), Number(1, 1), ObjFunction(2), ObjFunction(3)>>,
         <<OpNil, OpDefineGlobal, 0,
           OpNil, OpDefineGlobal, 1,
           OpConstant, 2,
           OpClosure, 3, 1, 1,
           OpClosure, 4, 1, 1,
           OpGetLocal, 2, OpCall, 0, OpPop,
           OpGetLocal, 3, OpCall, 0, OpPop,
           OpGetLocal, 2, OpSetGlobal, 0, OpPop,
           OpGetLocal, 3, OpSetGlobal, 1, OpPop,
           OpPop, OpPop, OpCloseUpvalue,
           OpGetGlobal, 0, OpCall, 0, OpPop,
           OpGetGlobal, 1, OpCall, 0, OpPop,
           OpNil, OpReturn>>),
       AssembledFunction("Function", "set", 1,
         <<Number(1, 1)>>,
         <<OpGetUpvalue, 0, OpConstant, 0, OpAdd, OpSetUpvalue, 0, OpPop,
           OpNil, OpReturn>>),
       AssembledFunction("Function", "get", 1,
         <<>>,
         <<OpGetUpvalue, 0, OpPrint, OpNil, OpReturn>>)>>]

\* var g;
\* { var a = 1; fun get() { print a; } a = 2; get(); g = get; }
\* g();
AsmSetLocal ==
    [strings |-> <<"g">>,
     functions |-> <<
       AssembledFunction("Script", "", 0,
         <<ObjString(2), Number(1, 1), ObjFunction(2), Number(2, 1)>>,
         <<OpNil, OpDefineGlobal, 0,
           OpConstant, 1,
           OpClosure, 2, 1, 1,
           OpConstant, 3, OpSetLocal, 1, OpPop,
           OpGetLocal, 2, OpCall, 0, OpPop,
           OpGetLocal, 2, OpSetGlobal, 0, OpPop,
           OpPop, OpCloseUpvalue,
           OpGetGlobal, 0, OpCall, 0, OpPop,
           OpNil, OpReturn>>),
       AssembledFunction("Function", "get", 1,
         <<>>,
         <<OpGetUpvalue, 0, OpPrint, OpNil, OpReturn>>)>>]

\* fun makeCounter() { var n = 0; fun c() { n = n + 1; print n; } return c; }
\* var k = makeCounter(); k(); k();
AsmCounter ==
    [strings |-> <<"makeCounter", "k">>,
     functions |-> <<
       AssembledFunction("Script", "", 0,
         <<ObjFunction(2), ObjString(2), ObjString(3)>>,
         <<OpClosure, 0, OpDefineGlobal, 1,
           OpGetGlobal, 1, OpCall, 0, OpDefineGlobal, 2,
           OpGetGlobal, 2, OpCall, 0, OpPop,
           OpGetGlobal, 2, OpCall, 0, OpPop,
           OpNil, OpReturn>>),
       AssembledFunction("Function", "makeCounter", 0,
         <<Number(0, 1), ObjFunction(3)>>,
         <<OpConstant, 0,
           OpClosure, 1, 1, 1,
           OpGetLocal, 2, OpReturn,
           OpNil, OpReturn>>),
       AssembledFunction("Function", "c", 1,
         <<Number(1, 1)>>,
         <<OpGetUpvalue, 0, OpConstant, 0, OpAdd, OpSetUpvalue, 0, OpPop,
           OpGetUpvalue, 0, OpPrint,
           OpNil, OpReturn>>)>>]

\* { var a = 1; var b = 2; var c = 3;
\*   fun f() { print c; } fun g() { print a; }
\*   fun h() { var x = 10; var y = 20;
\*             fun i() { print b; print x; print y; } i(); }
\*   h(); }
AsmOrder ==
    [strings |-> <<>>,
     functions |-> <<
       AssembledFunction("Script", "", 0,
         <<Number(1, 1), Number(2, 1), Number(3, 1),
           ObjFunction(2), ObjFunction(3), ObjFunction(4)>>,
         <<OpConstant, 0, OpConstant, 1, OpConstant, 2,
           OpClosure, 3, 1, 3,
           OpClosure, 4, 1, 1,
           OpClosure, 5, 1, 2,
           OpGetLocal, 6, OpCall, 0, OpPop,
           OpPop, OpPop, OpPop,
           OpCloseUpvalue, OpCloseUpvalue, OpCloseUpvalue,
           OpNil, OpReturn>>),
       AssembledFunction("Function", "f", 1,
         <<>>,
         <<OpGetUpvalue, 0, OpPrint, OpNil, OpReturn>>),
       AssembledFunction("Function", "g", 1,
         <<>>,
         <<OpGetUpvalue, 0, OpPrint, OpNil, OpReturn>>),
       AssembledFunction("Function", "h", 1,
         <<Number(10, 1), Number(20, 1), ObjFunction(5)>>,
         <<OpConstant, 0, OpConstant, 1,
           OpClosure, 2, 0, 0, 1, 1, 1, 2,
           OpGetLocal, 3, OpCall, 0, OpPop,
           OpNil, OpReturn>>),
       AssembledFunction("Function", "i", 3,
         <<>>,
         <<OpGetUpvalue, 0, OpPrint, OpGetUpvalue, 1, OpPrint,
           OpGetUpvalue, 2, OpPrint,
           OpNil, OpReturn>>)>>]

\* { var a = 1; fun get() { print a; } get(1); }
AsmErrorOpen ==
    [strings |-> <<>>,
     functions |-> <<
       AssembledFunction("Script", "", 0,
         <<Number(1, 1), ObjFunction(2)>>,
         <<OpConstant, 0,
           OpClosure, 1, 1, 1,
           OpGetLocal, 2, OpConstant, 0, OpCall, 1, OpPop,
           OpPop, OpCloseUpvalue,
           OpNil, OpReturn>>),
       AssembledFunction("Function", "get", 1,
         <<>>,
         <<OpGetUpvalue, 0, OpPrint, OpNil, OpReturn>>)>>]

AssembledPrograms ==
    {AsmShared, AsmSetLocal, AsmCounter, AsmOrder, AsmErrorOpen}

\* The heap with the program's objects allocated through the collector.
RECURSIVE assemble_strings(_, _, _), assemble_functions(_, _, _)
assemble_strings(h, strings, i) ==
    IF i > Len(strings) THEN h
    ELSE assemble_strings(gc_heap_alloc(h, "strings", strings[i]), strings, i + 1)

assemble_functions(h, functions, i) ==
    IF i > Len(functions) THEN h
    ELSE assemble_functions(gc_heap_alloc(h, "functions", functions[i]), functions, i + 1)

\* What compile returns when it has produced `program`: Some(function 1).
assembled(h, program) ==
    [h |-> assemble_functions(assemble_strings(h, program.strings, 1),
                              program.functions, 1),
     errors |-> <<>>, panicked |-> FALSE, ret |-> 1]

\* interpret after define_native, with the compiler's result replaced by
\* `program`.
interpret_program(m, program) ==
    IF m.pc # "run" THEN m ELSE interpret_compiled(m, assembled(m.h, program))

interpret_assembled(m, program) ==
    interpret_program(define_native([m EXCEPT !.pc = "run", !.result = "None"],
                                    "clock", "Clock"),
                      program)

(***************************************************************************)
(* Control-flow chunks.  The scanner's tokens of a statement that compiles *)
(* to tens of thousands of bytes are out of reach, so if_statement and     *)
(* while_statement are also driven with the guarded statement given as the *)
(* code it compiles to: `body` bytes.  A case is                           *)
(*   kind "if":     if (cond) S                                            *)
(*   kind "while":  while (cond) if (false) S                              *)
(* with cond the literal true or false and S compiling to `body` Nil       *)
(* instructions.                                                           *)
(***************************************************************************)
\* emit_byte for every byte of `bytes`.
emit_code(c, bytes) ==
    IF c.panicked THEN c
    ELSE [c EXCEPT !.h.functions[current_function(c)].code = @ \o bytes]

StatementBytes(body) == [i \in 1..body |-> OpNil]

literal_opcode(cond) == IF cond THEN OpTrue ELSE OpFalse

\* if_statement after the else jump is emitted (c.ret): no else branch.
if_else_part(c, then_jump) ==
    patch_jump(emit_byte(patch_jump(c, then_jump), OpPop), c.ret)

\* if_statement after the then jump is emitted (c.ret).
if_then_part(c, body) ==
    if_else_part(
      emit_jump(emit_code(emit_byte(c, OpPop), StatementBytes(body)), OpJump),
      c.ret)

if_chunk(c, cond, body) ==
    if_then_part(emit_jump(emit_byte(c, literal_opcode(cond)), OpJumpIfFalse), body)

\* while_statement after the exit jump is emitted (c.ret).
while_loop_part(c, loop_start, body) ==
    emit_byte(
      patch_jump(emit_loop(if_chunk(emit_byte(c, OpPop), FALSE, body), loop_start),
                 c.ret),
      OpPop)

while_chunk(c, cond, body) ==
    while_loop_part(emit_jump(emit_byte(c, literal_opcode(cond)), OpJumpIfFalse),
                    Len(current_chunk(c).code), body)

\* compile on the case's statement.
compile_chunk(c, case) ==
    compile_result(
      end_compiler(IF case.kind = "if" THEN if_chunk(c, case.cond, case.body)
                   ELSE while_chunk(c, case.cond, case.body)))

interpret_chunk(m, case) ==
    IF m.pc # "run" THEN m
    ELSE interpret_compiled(m, compile_chunk(Compiler_new(<<>>, m.h), case))

interpret_case(m, case) ==
    interpret_chunk(define_native([m EXCEPT !.pc = "run", !.result = "None"],
                                  "clock", "Clock"),
                    case)

\* The largest bodies whose jumps still fit 16 bits: the then jump of `if`
\* spans the body and 4 bytes more, the Loop of `while` the body and 17.
IfBodyMax == U16_MAX - 4
WhileBodyMax == U16_MAX - 17

\* The cases: small bodies, the largest body that fits and the first that
\* does not.  A true condition runs the body, so it comes with small bodies
\* only, except in `while`, whose inner `if (false)` jumps over the body.
JumpCases ==
    [kind : {"if"}, cond : {TRUE, FALSE}, body : 0..MaxBody]
    \cup [kind : {"if"}, cond : {FALSE}, body : {IfBodyMax, IfBodyMax + 1}]
    \cup [kind : {"while"}, cond : {TRUE, FALSE},
          body : (0..MaxBody) \cup {WhileBodyMax, WhileBodyMax + 1}]

(***************************************************************************)
(* Long programs.  Compiling a program of hundreds of statements nests the *)
(* evaluation once per statement, so a long program is compiled from the   *)
(* state the compiler is in after its first n statements, written down     *)
(* directly; C27_PrefixIsCompiled compares that state with the compiler's  *)
(* own for short prefixes.                                                 *)
(***************************************************************************)
\* n expression statements `k;` with k running through 0, 1, .., 5, 0, ..:
\* n number constants in the script's chunk.
SrcConstants(n) ==
    [i \in 1..(2 * n) |-> IF i % 2 = 1 THEN ToString(((i - 1) \div 2) % 6) ELSE ";"]

\* 256 constants, the most a chunk can index with one byte, and one more.
SrcConstantsFull == SrcConstants(U8_MAX + 1)
SrcConstantsOver == SrcConstants(U8_MAX + 2)

\* The compiler c, new on a source that starts with SrcConstants(n), after
\* the declarations of those n statements: past their tokens, with the
\* constant i - 1 and the code Constant i - 1, Pop of the i-th.
after_constants(c, n) ==
    [c EXCEPT !.cur = 2 * n + 1,
              !.prev = IF n = 0 THEN @ ELSE 2 * n,
              !.h.functions[current_function(c)].constants =
                  [i \in 1..n |-> parse_f64(ToString((i - 1) % 6))],
              !.h.functions[current_function(c)].code =
                  [i \in 1..(3 * n) |-> IF i % 3 = 1 THEN OpConstant
                                         ELSE IF i % 3 = 2 THEN (i - 1) \div 3
                                         ELSE OpPop]]

\* interpret on SrcConstants(n + 1), the compiler taken up before the last
\* statement.
interpret_constants(m, n) ==
    IF m.pc # "run" THEN m
    ELSE interpret_compiled(
           m, compile(after_constants(Compiler_new(SrcConstants(n + 1), m.h), n)))

interpret_long(m, n) ==
    interpret_constants(define_native([m EXCEPT !.pc = "run", !.result = "None"],
                                      "clock", "Clock"),
                        n)

\* fun f(p0, p1, .., p<n-1>) {} for n >= 1.
SrcManyParams(n) ==
    <<"fun", "f", "(">>
    \o [i \in 1..(2 * n - 1) |-> IF i % 2 = 1 THEN "p" \o ToString((i - 1) \div 2)
                                  ELSE ","]
    \o <<")", "{", "}">>

\* The compiler c, in function after consume(LeftParen) on a source that
\* starts like SrcManyParams, after n passes of the parameter loop and the
\* comma behind them: arity n and the n parameters as initialized locals.
after_parameters(c, n) ==
    [c EXCEPT !.cur = 4 + 2 * n,
              !.prev = 3 + 2 * n,
              !.ret = 1,
              !.h.functions[current_function(c)].arity = n,
              !.compiler_states[Len(c.compiler_states)].locals =
                  @ \o [i \in 1..n |-> [name |-> "p" \o ToString(i - 1), depth |-> 1]]]

\* fun_declaration with the parameter loop taken up after n parameters: c is
\* the compiler after parse_variable, c.ret the global.
fun_from_parameters(c, n) ==
    define_variable(
      function_body(
        parameters_more(after_parameters(function_head(mark_initialized(c)), n))),
      c.ret)

\* compile on SrcManyParams(n + 1), the first n parameters not walked through.
compile_parameters(c, n) ==
    compile(declaration_end(
      fun_from_parameters(parse_variable(advance(c), "Expect function name."), n)))

interpret_parameters(m, n) ==
    IF m.pc # "run" THEN m
    ELSE interpret_compiled(m, compile_parameters(Compiler_new(SrcManyParams(n + 1), m.h), n))

interpret_many(m, n) ==
    interpret_parameters(define_native([m EXCEPT !.pc = "run", !.result = "None"],
                                       "clock", "Clock"),
                         n)

\* fun f(p0, p1, .., p<n-1>) { var x; } for n >= 1.
SrcParamsAndLocal(n) ==
    <<"fun", "f", "(">>
    \o [i \in 1..(2 * n - 1) |-> IF i % 2 = 1 THEN "p" \o ToString((i - 1) \div 2)
                                  ELSE ","]
    \o <<")", "{", "var", "x", ";", "}">>

interpret_local(m, n) ==
    IF m.pc # "run" THEN m
    ELSE interpret_compiled(m, compile_parameters(Compiler_new(SrcParamsAndLocal(n + 1), m.h), n))

interpret_locals(m, n) == interpret_local(interpret_start(m), n)

\* The parameters before the last when a local follows: few, 253 and 254.
LocalPrefixes == (1..MaxPrefix) \cup {U8_MAX - 2, U8_MAX - 1}

\* The parameters before the last: few, 254 and 255.
ParameterPrefixes == (1..MaxPrefix) \cup {U8_MAX - 1, U8_MAX}

\* The statements before the last: few, 255 and 256.
PrefixLengths == (0..MaxPrefix) \cup {U8_MAX, U8_MAX + 1}

(***************************************************************************)
(* The state.                                                              *)
(***************************************************************************)
\* source is the argument of the last call of interpret; last_instruction is
\* the opcode the last pass of run's loop decoded, -1 when none has.
VARIABLES stack, stack_top, globals, frames, open_upvalues, heap,
          pc, mode, line, lines_read, result, exit_code,
          output, errors, compile_errors, source, last_instruction,
          compiler

vars == <<stack, stack_top, globals, frames, open_upvalues, heap,
          pc, mode, line, lines_read, result, exit_code,
          output, errors, compile_errors, source, last_instruction,
          compiler>>

\* The variables of the machine and of main.
machine_vars ==
    <<stack, stack_top, globals, frames, open_upvalues, heap,
      mode, line, lines_read, result, exit_code,
      output, errors, compile_errors, source, last_instruction>>

\* The machine the variables hold.
M ==
    [stack |-> stack, stack_top |-> stack_top, globals |-> globals,
     frames |-> frames, open_upvalues |-> open_upvalues, h |-> heap,
     pc |-> pc, mode |-> mode, line |-> line, lines_read |-> lines_read,
     result |-> result, exit_code |-> exit_code,
     output |-> output, errors |-> errors, compile_errors |-> compile_errors,
     ret |-> 0]

Commit(m) ==
    /\ stack' = m.stack
    /\ stack_top' = m.stack_top
    /\ globals' = m.globals
    /\ frames' = m.frames
    /\ open_upvalues' = m.open_upvalues
    /\ heap' = m.h
    /\ pc' = m.pc
    /\ mode' = m.mode
    /\ line' = m.line
    /\ lines_read' = m.lines_read
    /\ result' = m.result
    /\ exit_code' = m.exit_code
    /\ output' = m.output
    /\ errors' = m.errors
    /\ compile_errors' = m.compile_errors

\* VM::new, before main picks its mode.
Init ==
    /\ stack = <<>>
    /\ stack_top = 0
    /\ globals = [n \in {} |-> Nil]
    /\ frames = <<>>
    /\ open_upvalues = 0
    /\ heap = EmptyHeap
    /\ pc = "main"
    /\ mode = "none"
    /\ line = <<>>
    /\ lines_read = 0
    /\ result = "None"
    /\ exit_code = 0
    /\ output = <<>>
    /\ errors = <<>>
    /\ compile_errors = <<>>
    /\ source = <<>>
    /\ last_instruction = -1
    /\ compiler = Compiler_new(<<>>, EmptyHeap)

\* One pass of repl's loop: read_line appends to line; interpret(line.clone()).
ReplLine ==
    /\ pc \in {"main", "repl"}
    /\ mode \in {"none", "repl"}
    /\ lines_read < MaxLines
    /\ \E typed \in ReplLines :
          /\ Commit(interpret([M EXCEPT !.mode = "repl",
                                        !.line = line \o typed,
                                        !.lines_read = lines_read + 1],
                              line \o typed))
          /\ source' = line \o typed
    /\ last_instruction' = -1
    /\ UNCHANGED compiler

\* run_file, up to the call of run.
RunFile ==
    /\ pc = "main"
    /\ \E file \in Files :
          /\ Commit(interpret([M EXCEPT !.mode = "file"], file))
          /\ source' = file
    /\ last_instruction' = -1
    /\ UNCHANGED compiler

\* run_file on a file whose compilation yields an assembled program.
RunAssembled ==
    /\ pc = "main"
    /\ \E program \in AssembledPrograms :
          /\ Commit(interpret_assembled([M EXCEPT !.mode = "file"], program))
          /\ source' = program
    /\ last_instruction' = -1
    /\ UNCHANGED compiler

\* The case written as a source text would be, the statement S as its size.
case_source(case) ==
    <<case.kind, "(", IF case.cond THEN "true" ELSE "false", ")", ToString(case.body)>>

\* run_file on the chunk of a control-flow case.
RunChunk ==
    /\ pc = "main"
    /\ \E case \in JumpCases :
          /\ Commit(interpret_case([M EXCEPT !.mode = "file"], case))
          /\ source' = case_source(case)
    /\ last_instruction' = -1
    /\ UNCHANGED compiler

\* run_file on a program of n + 1 constant statements.
RunLong ==
    /\ pc = "main"
    /\ \E n \in PrefixLengths :
          /\ Commit(interpret_long([M EXCEPT !.mode = "file"], n))
          /\ source' = SrcConstants(n + 1)
    /\ last_instruction' = -1
    /\ UNCHANGED compiler

\* run_file on a function declaration of n + 1 parameters.
RunMany ==
    /\ pc = "main"
    /\ \E n \in ParameterPrefixes :
          /\ Commit(interpret_many([M EXCEPT !.mode = "file"], n))
          /\ source' = SrcManyParams(n + 1)
    /\ last_instruction' = -1
    /\ UNCHANGED compiler

\* run_file up to the loop of compile: interpret has defined clock and
\* built the compiler.
CompileFile ==
    /\ pc = "main"
    /\ \E file \in CompileFiles :
          /\ Commit([interpret_start([M EXCEPT !.mode = "file"]) EXCEPT !.pc = "compile"])
          /\ compiler' = Compiler_new(file, interpret_start([M EXCEPT !.mode = "file"]).h)
          /\ source' = file
    /\ last_instruction' = -1

\* One pass of the loop of compile, up to the final if of declaration.
Declaration ==
    /\ pc = "compile"
    /\ ~compiler.panicked
    /\ ~check(compiler, "EOF")
    /\ compiler' = declaration_match(compiler)
    /\ pc' = "declared"
    /\ UNCHANGED machine_vars

\* The final if of declaration: synchronize when in panic mode.
Synchronize ==
    /\ pc = "declared"
    /\ compiler' = declaration_end(compiler)
    /\ pc' = "compile"
    /\ UNCHANGED machine_vars

\* compile after its loop, and interpret on its result.
CompileEnd ==
    /\ pc = "compile"
    /\ compiler.panicked \/ check(compiler, "EOF")
    /\ Commit(interpret_compiled([M EXCEPT !.pc = "run"], compile(compiler)))
    /\ last_instruction' = -1
    /\ UNCHANGED <<source, compiler>>

\* run_file on a function of n + 1 parameters and one local.
RunLocals ==
    /\ pc = "main"
    /\ \E n \in LocalPrefixes :
          /\ Commit(interpret_locals([M EXCEPT !.mode = "file"], n))
          /\ source' = SrcParamsAndLocal(n + 1)
    /\ last_instruction' = -1
    /\ UNCHANGED compiler

\* The byte the next pass of run's loop decodes, -1 when there is none.
instruction ==
    IF pc = "run" /\ frames # <<>> /\ frame(M).ip < Len(frame_function(M).code)
    THEN frame_function(M).code[frame(M).ip + 1]
    ELSE -1

\* One pass of the loop of VM::run that decodes `opcode`.
Step(opcode, m) ==
    /\ instruction = opcode
    /\ Commit(m)
    /\ last_instruction' = opcode
    /\ UNCHANGED <<source, compiler>>

ExecConstant == Step(OpConstant, run_Constant(read_byte(M)))
ExecNegate == Step(OpNegate, run_Negate(read_byte(M)))
ExecReturn == Step(OpReturn, run_Return(read_byte(M)))
ExecNil == Step(OpNil, run_Nil(read_byte(M)))
ExecTrue == Step(OpTrue, run_True(read_byte(M)))
ExecFalse == Step(OpFalse, run_False(read_byte(M)))
ExecAdd == Step(OpAdd, run_Add(read_byte(M)))
ExecSubtract == Step(OpSubtract, run_Subtract(read_byte(M)))
ExecMultiply == Step(OpMultiply, run_Multiply(read_byte(M)))
ExecDivide == Step(OpDivide, run_Divide(read_byte(M)))
ExecNot == Step(OpNot, run_Not(read_byte(M)))
ExecEqual == Step(OpEqual, run_Equal(read_byte(M)))
ExecGreater == Step(OpGreater, run_Greater(read_byte(M)))
ExecLess == Step(OpLess, run_Less(read_byte(M)))
ExecPrint == Step(OpPrint, run_Print(read_byte(M)))
ExecPop == Step(OpPop, run_Pop(read_byte(M)))
ExecDefineGlobal == Step(OpDefineGlobal, run_DefineGlobal(read_byte(M)))
ExecGetGlobal == Step(OpGetGlobal, run_GetGlobal(read_byte(M)))
ExecSetGlobal == Step(OpSetGlobal, run_SetGlobal(read_byte(M)))
ExecGetLocal == Step(OpGetLocal, run_GetLocal(read_byte(M)))
ExecSetLocal == Step(OpSetLocal, run_SetLocal(read_byte(M)))
ExecJumpIfFalse == Step(OpJumpIfFalse, run_JumpIfFalse(read_byte(M)))
ExecJump == Step(OpJump, run_Jump(read_byte(M)))
ExecLoop == Step(OpLoop, run_Loop(read_byte(M)))
ExecCall == \E time \in ClockTimes : Step(OpCall, run_Call(read_byte(M), time))
ExecClosure == Step(OpClosure, run_Closure(read_byte(M)))
ExecGetUpvalue == Step(OpGetUpvalue, run_GetUpvalue(read_byte(M)))
ExecSetUpvalue == Step(OpSetUpvalue, run_SetUpvalue(read_byte(M)))
ExecCloseUpvalue == Step(OpCloseUpvalue, run_CloseUpvalue(read_byte(M)))

Run ==
    \/ ExecConstant
    \/ ExecNegate
    \/ ExecReturn
    \/ ExecNil
    \/ ExecTrue
    \/ ExecFalse
    \/ ExecAdd
    \/ ExecSubtract
    \/ ExecMultiply
    \/ ExecDivide
    \/ ExecNot
    \/ ExecEqual
    \/ ExecGreater
    \/ ExecLess
    \/ ExecPrint
    \/ ExecPop
    \/ ExecDefineGlobal
    \/ ExecGetGlobal
    \/ ExecSetGlobal
    \/ ExecGetLocal
    \/ ExecSetLocal
    \/ ExecJumpIfFalse
    \/ ExecJump
    \/ ExecLoop
    \/ ExecCall
    \/ ExecClosure

Next == ReplLine \/ RunFile \/ Run

Spec == Init /\ [][Next]_vars

\* The machine with the upvalue arms of run, on sources and assembled programs.
NextVM ==
    \/ ReplLine
    \/ RunFile
    \/ RunAssembled
    \/ Run
    \/ ExecGetUpvalue
    \/ ExecSetUpvalue
    \/ ExecCloseUpvalue

SpecVM == Init /\ [][NextVM]_vars

\* The machine on sources, on the chunks of the control-flow cases and on
\* long programs.
NextLong ==
    \/ ReplLine
    \/ RunFile
    \/ RunChunk
    \/ RunLong
    \/ RunMany
    \/ RunLocals
    \/ Run

SpecLong == Init /\ [][NextLong]_vars

\* The machine with compile taken one declaration at a time.
NextCompile ==
    \/ CompileFile
    \/ Declaration
    \/ Synchronize
    \/ CompileEnd
    \/ Run

SpecCompile == Init /\ [][NextCompile]_vars

(***************************************************************************)
(* Properties.                                                             *)
(***************************************************************************)
\* interpret has returned to its caller.
Returned == pc \in {"exit", "repl"} /\ result # "None"

\* C1 (the Ok half of the equivalence): whenever interpret has returned Ok,
\* the value stack is empty again, stack_top = 0.
C1_OkHaltLeavesStackEmpty == (Returned /\ result = "Ok") => stack_top = 0

\* The upvalues of the heap that are still open.
OpenUpvalues == {u \in 1..Len(heap.upvalues) : ~heap.upvalues[u].closed_some}

\* The slot the SetLocal about to be decoded writes.
SetLocalSlot == frame(M).first_slot + frame_function(M).code[frame(M).ip + 2]

\* C2: when SetLocal assigns to a local that an open upvalue captured, the
\* local's slot holds the assigned value afterwards, which is what GetUpvalue
\* through the capturing closure reads.
C2_SetLocalSeenThroughUpvalue ==
    [][(/\ instruction = OpSetLocal
        /\ last_instruction' = OpSetLocal
        /\ pc' = "run"
        /\ \E u \in OpenUpvalues : heap.upvalues[u].location = SetLocalSlot)
       => stack'[SetLocalSlot + 1] = peek(M, 0)]_vars

\* C3: no two open upvalues have the same location, so closures that captured
\* one slot hold one upvalue; the program whose closures set and get share
\* the local a prints 2 while a is open and 3 after a is closed.
C3_CapturesShareOneUpvalue ==
    /\ \A u1, u2 \in OpenUpvalues :
          heap.upvalues[u1].location = heap.upvalues[u2].location => u1 = u2
    /\ (source = AsmShared /\ pc = "exit")
          => output = <<out_number(Number(2, 1)), out_number(Number(3, 1))>>

\* C3 witness: set and get hold the same upvalue and both reads through get,
\* the one before and the one after the close, have happened.
C3_Witness ==
    /\ source = AsmShared
    /\ Len(heap.closures) >= 3
    /\ heap.closures[2].upvalues = heap.closures[3].upvalues
    /\ heap.closures[2].upvalues[1] # 0
    /\ Len(output) = 2

\* C4: the makeCounter program ends Ok having printed 1, 2, 3.
C4_CounterCounts ==
    (source = SrcCounter /\ pc \in {"exit", "panic"})
        => /\ result = "Ok"
           /\ output = <<out_number(Number(1, 1)), out_number(Number(2, 1)),
                         out_number(Number(3, 1))>>

\* C5: the for loop over i = 0..4 ends, and the run ends Ok having printed 10.
C5_ForLoopPrintsTen ==
    (source = SrcFor /\ pc \in {"exit", "panic"})
        => /\ result = "Ok"
           /\ output = <<out_number(Number(10, 1))>>

\* The value of an arithmetic expression under the standard reading: the
\* last + or - outside parentheses splits it, else the last * or /, else a
\* leading minus negates, else it is a parenthesis or a literal.
BinaryAt(e, ops) ==
    {i \in 2..Len(e) :
        /\ e[i] \in ops
        /\ e[i - 1] \in ExprLiterals \cup {")"}
        /\ Cardinality({k \in 1..(i - 1) : e[k] = "("})
             = Cardinality({k \in 1..(i - 1) : e[k] = ")"})}

Last(positions) == CHOOSE i \in positions : \A j \in positions : j <= i

Apply(o, x, y) ==
    CASE o = "+" -> f64_add(x, y)
      [] o = "-" -> f64_sub(x, y)
      [] o = "*" -> f64_mul(x, y)
      [] o = "/" -> f64_div(x, y)

RECURSIVE Eval(_)
EvalSplit(e, i) ==
    Apply(e[i], Eval(SubSeq(e, 1, i - 1)), Eval(SubSeq(e, i + 1, Len(e))))

Eval(e) ==
    IF Len(e) = 1 THEN parse_f64(e[1])
    ELSE IF BinaryAt(e, {"+", "-"}) # {} THEN EvalSplit(e, Last(BinaryAt(e, {"+", "-"})))
    ELSE IF BinaryAt(e, {"*", "/"}) # {} THEN EvalSplit(e, Last(BinaryAt(e, {"*", "/"})))
    ELSE IF e[1] = "-" THEN f64_neg(Eval(Tail(e)))
    ELSE Eval(SubSeq(e, 2, Len(e) - 1))

\* C6: a file `print e;` for an arithmetic expression e ends having printed
\* the value of e under the standard reading.
C6_ArithmeticMatchesPrecedence ==
    (source \in ExprFiles /\ pc = "exit")
        => output = <<out_number(Eval(SubSeq(source, 2, Len(source) - 1)))>>

\* The objects a value names, and the objects the roots reach: the stack
\* below stack_top, the frames' closures, the globals, the functions of
\* reached closures, the constants of reached functions, closed upvalues.
ValueRefs(values) == {object_ref(v) : v \in {w \in values : is_object(w)}}

RootRefs ==
    ValueRefs({stack_get(M, i) : i \in 0..(stack_top - 1)})
    \cup {<<"closures", frames[i].closure>> : i \in 1..Len(frames)}
    \cup ValueRefs({globals[n] : n \in DOMAIN globals})

RefsOf(r) ==
    CASE r[1] = "closures" ->
            {<<"functions", heap.closures[r[2]].function>>}
            \cup {<<"upvalues", heap.closures[r[2]].upvalues[i]>> :
                    i \in {k \in 1..Len(heap.closures[r[2]].upvalues) :
                             heap.closures[r[2]].upvalues[k] # 0}}
      [] r[1] = "functions" ->
            ValueRefs({heap.functions[r[2]].constants[i] :
                         i \in 1..Len(heap.functions[r[2]].constants)})
      [] r[1] = "upvalues" ->
            IF heap.upvalues[r[2]].closed_some
            THEN ValueRefs({heap.upvalues[r[2]].closed})
            ELSE {}
      [] OTHER -> {}

RECURSIVE Reach(_)
Reach(refs) ==
    IF (UNION {RefsOf(r) : r \in refs}) \subseteq refs THEN refs
    ELSE Reach(refs \cup UNION {RefsOf(r) : r \in refs})

\* C7: while the VM is alive, no object the roots reach has been freed.
C7_NoReferencedObjectFreed ==
    pc \in {"run", "repl"} => Reach(RootRefs) \cap heap.freed = {}

\* C7 witness: the Closure arm has just allocated, after a collection, while
\* the stack, a frame and the globals hold objects that were marked.
C7_Witness ==
    /\ DebugStressGc
    /\ pc = "run"
    /\ last_instruction = OpClosure
    /\ \E r \in Reach(RootRefs) : r[1] = "strings"
    /\ RootRefs \cap heap.marked # {}

\* The opcodes of a chunk's instructions: the bytes at instruction starts.
operand_bytes(code, i) ==
    CASE code[i] \in {OpConstant, OpDefineGlobal, OpGetGlobal, OpSetGlobal, OpGetLocal,
                      OpSetLocal, OpCall, OpGetUpvalue, OpSetUpvalue, OpClosure} -> 1
      [] code[i] \in {OpJumpIfFalse, OpJump, OpLoop} -> 2
      [] OTHER -> 0

RECURSIVE opcodes_from(_, _)
opcodes_from(code, i) ==
    IF i > Len(code) THEN {}
    ELSE {code[i]} \cup opcodes_from(code, i + 1 + operand_bytes(code, i))

\* C8: in the program whose block declares a, which the inner function f
\* names, the block's end closes a with CloseUpvalue.
C8_CapturedLocalClosedAtScopeExit ==
    (source = SrcCapture /\ pc # "main")
        => OpCloseUpvalue \in opcodes_from(heap.functions[1].code, 1)

\* The Call about to be decoded calls a closure with the arity it expects.
CallOfClosure ==
    /\ instruction = OpCall
    /\ LET arg_count == frame_function(M).code[frame(M).ip + 2]
       IN /\ can_peek(M, arg_count)
          /\ peek(M, arg_count).t = "ObjClosure"
          /\ heap.functions[heap.closures[peek(M, arg_count).a].function].arity
               = arg_count

\* C9: there are never more than 64 frames, and a Call of a closure with 64
\* frames live pushes none and returns RuntimeError after "Stack overflow.".
C9_FramesBounded ==
    [][/\ Len(frames') <= FRAMES_MAX
       /\ (CallOfClosure /\ Len(frames) = FRAMES_MAX /\ last_instruction' = OpCall)
             => /\ Len(frames') = Len(frames)
                /\ result' = "RuntimeError"
                /\ errors' = Append(errors, "Stack overflow.")]_vars

\* C9 witness: 64 frames are live and the run has ended with the overflow.
C9_Witness ==
    /\ Len(frames) = FRAMES_MAX
    /\ last_instruction = OpCall
    /\ result = "RuntimeError"
    /\ errors = <<"Stack overflow.">>

\* C10: a run whose frames stay within the limit never pushes at an index
\* outside the value stack.
C10_NoPushOutsideStack ==
    ~(pc = "panic" /\ stack_top >= STACK_MAX /\ Len(frames) <= FRAMES_MAX
      /\ source = SrcRecurseWide)

\* C11: whenever interpret has returned RuntimeError, the value stack is
\* reset and no call frame is left, so that the next interpret starts with
\* the new script closure as its only frame.
C11_RuntimeErrorResetsStackAndFrames ==
    (Returned /\ result = "RuntimeError") => (stack_top = 0 /\ frames = <<>>)

\* The name the global instruction about to be decoded has as its operand.
GlobalName ==
    heap.strings[frame_function(M).constants[
                   frame_function(M).code[frame(M).ip + 2] + 1].a]

\* C12: SetGlobal on a name without a binding is a runtime error that leaves
\* globals as it was; on a bound name it stores the top of the stack under
\* the name and leaves the stack as it was.
C12_SetGlobalCreatesNoBinding ==
    [][(instruction = OpSetGlobal /\ last_instruction' = OpSetGlobal)
       => IF GlobalName \in DOMAIN globals
          THEN /\ globals' = [globals EXCEPT ![GlobalName] = peek(M, 0)]
               /\ stack_top' = stack_top
               /\ stack' = stack
               /\ pc' = "run"
          ELSE /\ globals' = globals
               /\ result' = "RuntimeError"
               /\ pc' \in {"exit", "repl"}]_vars

\* C12 witness: SetGlobal has just failed on the unbound name `undefined`.
C12_Witness ==
    /\ source = SrcSetUndefined
    /\ last_instruction = OpSetGlobal
    /\ result = "RuntimeError"
    /\ errors = <<"Undefined variable undefined.">>
    /\ "undefined" \notin DOMAIN globals

\* C13: Add on two strings leaves their concatenation, a string allocated by
\* the step, in place of both; on two numbers their sum; on anything else
\* the run ends with "Operands must be numbers." and RuntimeError, and
\* nothing is pushed.
C13_AddConcatenatesOrSums ==
    [][(instruction = OpAdd /\ last_instruction' = OpAdd /\ can_peek(M, 1))
       => CASE peek(M, 0).t = "ObjString" /\ peek(M, 1).t = "ObjString" ->
                 /\ pc' = "run"
                 /\ stack_top' = stack_top - 1
                 /\ stack'[stack_top'].t = "ObjString"
                 /\ stack'[stack_top'].a > Len(heap.strings)
                 /\ heap'.strings[stack'[stack_top'].a]
                      = heap.strings[peek(M, 1).a] \o heap.strings[peek(M, 0).a]
            [] peek(M, 0).t = "Number" /\ peek(M, 1).t = "Number" ->
                 /\ pc' = "run"
                 /\ stack_top' = stack_top - 1
                 /\ stack'[stack_top'] = f64_add(peek(M, 1), peek(M, 0))
            [] OTHER ->
                 /\ pc' \in {"exit", "repl"}
                 /\ result' = "RuntimeError"
                 /\ errors' = Append(errors, "Operands must be numbers.")
                 /\ stack_top' = 0]_vars

\* C13 witness: Add has just failed on a number and a string.
C13_Witness ==
    /\ source = SrcAddMixed
    /\ last_instruction = OpAdd
    /\ result = "RuntimeError"
    /\ errors = <<"Operands must be numbers.">>

\* The operand of the Call about to be decoded, and the arity of the closure
\* it calls.
CallArgCount == frame_function(M).code[frame(M).ip + 2]
CalleeArity ==
    heap.functions[heap.closures[peek(M, CallArgCount).a].function].arity

\* C14: a Call of a closure with an argument count other than its arity
\* pushes no frame and ends the run with RuntimeError after the message
\* naming both numbers, so no instruction of the callee is decoded.
C14_ArityMismatchPushesNoFrame ==
    [][(/\ instruction = OpCall
        /\ last_instruction' = OpCall
        /\ can_peek(M, CallArgCount)
        /\ peek(M, CallArgCount).t = "ObjClosure"
        /\ CalleeArity # CallArgCount)
       => /\ Len(frames') = Len(frames)
          /\ pc' \in {"exit", "repl"}
          /\ result' = "RuntimeError"
          /\ errors' = Append(errors, "Expected " \o ToString(CalleeArity)
                                        \o " arguments but got "
                                        \o ToString(CallArgCount))]_vars

\* C14 witness: the call f() of a function of one parameter has just failed.
C14_Witness ==
    /\ source = SrcArity
    /\ last_instruction = OpCall
    /\ result = "RuntimeError"
    /\ errors = <<"Expected 1 arguments but got 0">>
    /\ Len(frames) = 1

\* The exit code run_file gives an interpret result.
ExitCodeOf(r) ==
    CASE r = "CompileError" -> 65
      [] r = "RuntimeError" -> 70
      [] r = "Ok" -> 0

\* C15: interpret returns CompileError exactly when the compiler reported an
\* error, and then no frame is pushed and no instruction is decoded; without
\* an error the script's frame is pushed and run starts.  The process exits
\* with 0, 65 or 70 for Ok, CompileError or RuntimeError.
C15_CompileErrorRunsNothing ==
    [][/\ pc' = "exit" => exit_code' = ExitCodeOf(result')
       /\ (pc \in {"main", "repl"} /\ pc' # "panic")
             => /\ (result' = "CompileError") <=> (compile_errors' # compile_errors)
                /\ IF result' = "CompileError"
                   THEN /\ pc' \in {"exit", "repl"}
                        /\ frames' = frames
                        /\ stack_top' = stack_top
                        /\ output' = output
                        /\ last_instruction' = -1
                   ELSE /\ pc' = "run"
                        /\ Len(frames') = Len(frames) + 1
                        /\ frame(M').ip = 0]_vars

\* C15 witness: the file `print 1 + ;` has been refused with exit code 65.
C15_Witness ==
    /\ source = SrcSyntax
    /\ pc = "exit"
    /\ result = "CompileError"
    /\ exit_code = 65
    /\ compile_errors # <<>>
    /\ frames = <<>>

\* C16: the source each pass of the REPL hands to interpret is the line that
\* pass read, so no earlier line is executed again.
C16_ReplRunsTheLineRead ==
    [][(mode' = "repl" /\ lines_read' = lines_read + 1)
       => source' = SubSeq(line', Len(line) + 1, Len(line'))]_vars

\* What a program can tell of a global's value: a native by its function,
\* anything else by the value itself.
GlobalSeen(h, v) == IF v.t = "ObjNative" THEN h.natives[v.a] ELSE v

\* C17: every global bound when one interpret has returned has the same
\* value when the script of the next interpret on the VM starts.
C17_GlobalsPersistAcrossInterprets ==
    [][(pc = "repl" /\ pc' = "run")
       => \A n \in DOMAIN globals :
             /\ n \in DOMAIN globals'
             /\ GlobalSeen(heap', globals'[n]) = GlobalSeen(heap, globals[n])]_vars

\* C18: SetLocal stores the top of the stack in the local's slot and changes
\* nothing else: stack_top and every other slot are as before.
C18_SetLocalOverwritesSlot ==
    [][(instruction = OpSetLocal /\ last_instruction' = OpSetLocal /\ pc' = "run")
       => /\ stack'[SetLocalSlot + 1] = peek(M, 0)
          /\ stack_top' = stack_top
          /\ \A i \in 1..stack_top :
                i # SetLocalSlot + 1 => stack'[i] = stack[i]]_vars

\* C19: Negate replaces the number on top of the stack by its negation,
\* with the stack height and the slots below unchanged; on anything else
\* the run ends with "Operand must be a number." and RuntimeError.
C19_NegateReplacesTop ==
    [][(instruction = OpNegate /\ last_instruction' = OpNegate /\ can_peek(M, 0))
       => IF peek(M, 0).t = "Number"
          THEN /\ pc' = "run"
               /\ stack_top' = stack_top
               /\ stack'[stack_top] = f64_neg(peek(M, 0))
               /\ \A i \in 1..(stack_top - 1) : stack'[i] = stack[i]
          ELSE /\ pc' \in {"exit", "repl"}
               /\ result' = "RuntimeError"
               /\ errors' = Append(errors, "Operand must be a number.")]_vars

\* C20: Return from a frame that is not the only one closes every open
\* upvalue at or above the frame's first slot with the slot's value and
\* leaves the others open, removes the frame, leaves the result as the one
\* value at the first slot with the slots below untouched, and goes on in
\* the caller where its Call left it; Return from the only frame pops the
\* result and one more value and ends the run with Ok.
C20_ReturnUnwindsFrame ==
    [][(instruction = OpReturn /\ last_instruction' = OpReturn)
       => IF Len(frames) > 1
          THEN /\ pc' = "run"
               /\ frames' = SubSeq(frames, 1, Len(frames) - 1)
               /\ stack_top' = frame(M).first_slot + 1
               /\ stack'[stack_top'] = peek(M, 0)
               /\ \A i \in 1..frame(M).first_slot : stack'[i] = stack[i]
               /\ \A u \in OpenUpvalues :
                     IF heap.upvalues[u].location >= frame(M).first_slot
                     THEN /\ heap'.upvalues[u].closed_some
                          /\ heap'.upvalues[u].closed
                               = stack_get(M, heap.upvalues[u].location)
                     ELSE ~heap'.upvalues[u].closed_some
          ELSE /\ pc' \in {"exit", "repl"}
               /\ result' = "Ok"
               /\ frames' = <<>>
               /\ stack_top' = stack_top - 2]_vars

\* C20 witness: makeCounter has just returned the closure c to the script,
\* and the upvalue of its local n is closed with the value 0.
C20_Witness ==
    /\ source = AsmCounter
    /\ last_instruction = OpReturn
    /\ pc = "run"
    /\ Len(frames) = 1
    /\ stack[stack_top].t = "ObjClosure"
    /\ Len(heap.upvalues) = 1
    /\ heap.upvalues[1].closed_some
    /\ heap.upvalues[1].closed = Number(0, 1)

\* C21: a Call of a closure that pushes a frame gives it ip 0 and the
\* callee's stack index as first_slot and leaves the stack as it was, so
\* slot 0 of the frame is the callee and slot i its i-th argument; the
\* compiler numbers the parameters the same way: h(a, b) reads a with
\* GetLocal 1 and b with GetLocal 2, and h(1, 2) prints 1 and 2.
C21_CallFrameWindowMatchesSlots ==
    [][/\ (CallOfClosure /\ last_instruction' = OpCall /\ Len(frames) < FRAMES_MAX)
             => /\ pc' = "run"
                /\ Len(frames') = Len(frames) + 1
                /\ frame(M') = [closure |-> peek(M, CallArgCount).a,
                                first_slot |-> stack_top - CallArgCount - 1,
                                ip |-> 0]
                /\ stack' = stack
                /\ stack_top' = stack_top
                /\ stack'[frame(M').first_slot + 1] = peek(M, CallArgCount)
       /\ (source' = SrcParams /\ pc' # "main")
             => /\ heap'.functions[2].arity = 2
                /\ heap'.functions[2].code
                     = <<OpGetLocal, 1, OpPrint, OpGetLocal, 2, OpPrint, OpNil, OpReturn>>
       /\ (source' = SrcParams /\ pc' = "exit")
             => /\ result' = "Ok"
                /\ output' = <<out_number(Number(1, 1)), out_number(Number(2, 1))>>]_vars

\* C21 witness: h(1, 2) has just been called; its frame starts at h's slot
\* with the arguments 1 and 2 in slots 1 and 2.
C21_Witness ==
    /\ source = SrcParams
    /\ last_instruction = OpCall
    /\ pc = "run"
    /\ Len(frames) = 2
    /\ frame(M).ip = 0
    /\ stack_get(M, frame(M).first_slot).t = "ObjClosure"
    /\ stack_get(M, frame(M).first_slot + 1) = Number(1, 1)
    /\ stack_get(M, frame(M).first_slot + 2) = Number(2, 1)

\* The open-upvalue list from its head, as upvalue pointers.
OpenList == upvalue_list(heap, open_upvalues)

\* The locations along the open-upvalue list.
OpenLocations == [i \in 1..Len(OpenList) |-> heap.upvalues[OpenList[i]].location]

\* The upvalue existed before the step.
WasAllocated(u) == u <= Len(heap.upvalues)

\* C22: after every step the locations along the open-upvalue list strictly
\* descend (so no location occurs twice), and a Closure instruction leaves
\* the upvalues that were on the list on it in the order they had and links
\* each upvalue it creates where the descent puts it: after the last entry
\* with a higher location and before the first with a lower one.
C22_OpenListStrictlyDescending ==
    [][/\ \A i \in 1..(Len(OpenList') - 1) : OpenLocations'[i] > OpenLocations'[i + 1]
       /\ (instruction = OpClosure /\ last_instruction' = OpClosure /\ pc' = "run")
             => /\ SelectSeq(OpenList', WasAllocated) = OpenList
                /\ \A i \in 1..Len(OpenList') :
                      ~WasAllocated(OpenList'[i])
                         => /\ ~heap'.upvalues[OpenList'[i]].closed_some
                            /\ \A j \in 1..Len(OpenList) :
                                  OpenLocations[j] # OpenLocations'[i]]_vars

\* C22 witness: the locals at 3, 1 and 2 were captured in that order; the
\* upvalue of 2, created last, sits between the other two.
C22_Witness ==
    /\ source = AsmOrder
    /\ last_instruction = OpClosure
    /\ OpenList = <<1, 3, 2>>
    /\ OpenLocations = <<3, 2, 1>>

\* The threshold the CloseUpvalue or Return about to be decoded hands to
\* close_upvalues.
CloseThreshold ==
    IF instruction = OpCloseUpvalue THEN stack_top - 1 ELSE frame(M).first_slot

\* The upvalue's location is under that threshold.
BelowCloseThreshold(u) == heap.upvalues[u].location < CloseThreshold

\* C23: a CloseUpvalue or Return step closes the open upvalues whose location
\* is at or above the threshold of its close_upvalues call, each with the
\* value its stack slot holds, and takes them off the open list; the open
\* upvalues below the threshold are unchanged and stay on the list in the
\* order they had.
C23_CloseUpvaluesClosesFromThreshold ==
    [][(instruction \in {OpCloseUpvalue, OpReturn}
        /\ last_instruction' = instruction /\ pc' # "panic")
       => /\ OpenList' = SelectSeq(OpenList, BelowCloseThreshold)
          /\ \A i \in 1..Len(OpenList) :
                IF BelowCloseThreshold(OpenList[i])
                THEN heap'.upvalues[OpenList[i]] = heap.upvalues[OpenList[i]]
                ELSE /\ heap'.upvalues[OpenList[i]].closed_some
                     /\ heap'.upvalues[OpenList[i]].closed
                          = stack_get(M, heap.upvalues[OpenList[i]].location)]_vars

\* C23 witness: h has returned; the upvalues of its locals x and y are
\* closed with 10 and 20 and the upvalues of the script's a, b and c are
\* still on the list in their order.
C23_Witness ==
    /\ source = AsmOrder
    /\ last_instruction = OpReturn
    /\ Len(frames) = 1
    /\ heap.upvalues[4].closed_some /\ heap.upvalues[4].closed = Number(10, 1)
    /\ heap.upvalues[5].closed_some /\ heap.upvalues[5].closed = Number(20, 1)
    /\ OpenList = <<1, 3, 2>>
    /\ OpenLocations = <<3, 2, 1>>

\* C24: in every state each upvalue on the open list is not closed and its
\* location is a live stack slot (below stack_top), and no closed upvalue is
\* on the open list.
C24_OpenUpvaluesAreLiveSlots ==
    /\ \A i \in 1..Len(OpenList) :
          /\ ~heap.upvalues[OpenList[i]].closed_some
          /\ OpenLocations[i] < stack_top
    /\ \A u \in 1..Len(heap.upvalues) :
          heap.upvalues[u].closed_some => \A i \in 1..Len(OpenList) : OpenList[i] # u

\* The same with the states a runtime error leaves set aside.
OpenUpvaluesAreLiveSlotsWhileRunning ==
    result # "RuntimeError" => C24_OpenUpvaluesAreLiveSlots

\* The function the Closure about to be decoded wraps, and the i-th
\* (is_local, index) pair that follows its constant operand.
ClosureFunction ==
    frame_function(M).constants[frame_function(M).code[frame(M).ip + 2] + 1].a

ClosureIsLocal(i) == frame_function(M).code[frame(M).ip + 3 + 2 * i]

ClosureIndex(i) == frame_function(M).code[frame(M).ip + 4 + 2 * i]

\* C25: a Closure step pushes a new closure of the constant's function whose
\* upvalue array has upvalue_count entries, none null; entry i is the open
\* upvalue of the slot first_slot + index (the one already open for that
\* slot, if any) when the i-th pair has is_local 1, and entry index of the
\* running closure otherwise; ip moves past the constant operand and
\* upvalue_count pairs.
C25_ClosureFillsEveryUpvalue ==
    [][(instruction = OpClosure /\ last_instruction' = OpClosure /\ pc' = "run")
       => /\ Len(heap'.closures) = Len(heap.closures) + 1
          /\ stack_top' = stack_top + 1
          /\ stack'[stack_top'] = ObjClosure(Len(heap'.closures))
          /\ heap'.closures[Len(heap'.closures)].function = ClosureFunction
          /\ Len(heap'.closures[Len(heap'.closures)].upvalues)
               = heap.functions[ClosureFunction].upvalue_count
          /\ frame(M').ip
               = frame(M).ip + 2 + 2 * heap.functions[ClosureFunction].upvalue_count
          /\ \A i \in 0..(heap.functions[ClosureFunction].upvalue_count - 1) :
                LET entry == heap'.closures[Len(heap'.closures)].upvalues[i + 1]
                IN /\ entry # 0
                   /\ IF ClosureIsLocal(i) = 1
                      THEN /\ ~heap'.upvalues[entry].closed_some
                           /\ heap'.upvalues[entry].location
                                = frame(M).first_slot + ClosureIndex(i)
                           /\ \E k \in 1..Len(OpenList') : OpenList'[k] = entry
                           /\ \A k \in 1..Len(OpenList) :
                                 OpenLocations[k] = frame(M).first_slot + ClosureIndex(i)
                                    => OpenList[k] = entry
                      ELSE entry = heap.closures[frame(M).closure].upvalues[ClosureIndex(i) + 1]]_vars

\* C25 witness: h has created i from the pairs (0, 0), (1, 1), (1, 2): i
\* holds h's upvalue of b and new upvalues of h's slots 1 and 2.
C25_Witness ==
    /\ source = AsmOrder
    /\ last_instruction = OpClosure
    /\ Len(frames) = 2
    /\ stack[stack_top] = ObjClosure(Len(heap.closures))
    /\ heap.closures[Len(heap.closures)].upvalues
         = <<heap.closures[frame(M).closure].upvalues[1], 4, 5>>
    /\ heap.upvalues[4].location = frame(M).first_slot + 1
    /\ heap.upvalues[5].location = frame(M).first_slot + 2

\* The 16-bit operand of the jump about to be decoded, high byte first.
JumpOperand ==
    256 * frame_function(M).code[frame(M).ip + 2] + frame_function(M).code[frame(M).ip + 3]

\* The jump about to be decoded moves ip.
JumpTaken ==
    \/ instruction \in {OpJump, OpLoop}
    \/ instruction = OpJumpIfFalse /\ is_falsey(peek(M, 0))

\* Where the jump at offset `at` of the case's chunk was aimed: the length
\* the chunk had when patch_jump patched it, and loop_start (0) for the Loop.
\*   if:     0 cond, 1 JumpIfFalse, 4 Pop, 5 body, body+5 Jump, body+8 Pop
\*   while:  0 cond, 1 JumpIfFalse, 4 Pop, 5 false, 6 JumpIfFalse, 9 Pop,
\*           10 body, body+10 Jump, body+13 Pop, body+14 Loop, body+17 Pop
PatchPoint(case, at) ==
    IF case.kind = "if"
    THEN (IF at = 1 THEN case.body + 8 ELSE case.body + 9)
    ELSE (IF at = 1 THEN case.body + 17
          ELSE IF at = 6 THEN case.body + 13
          ELSE IF at = case.body + 10 THEN case.body + 14
          ELSE 0)

\* Every jump distance of the case's chunk fits 16 bits.
FitsU16(case) ==
    case.body <= (IF case.kind = "if" THEN IfBodyMax ELSE WhileBodyMax)

\* C26: a Jump, and a JumpIfFalse on a falsey value, moves ip forward from
\* behind its operand by the operand read high byte first, a Loop moves it
\* back by it, and a JumpIfFalse on a truthy value only steps over the
\* operand; in the chunks of the control-flow cases that puts ip at the chunk
\* length patch_jump patched the jump at, and at loop_start for the Loop;
\* a case compiles without error exactly when its distances are at most
\* 65535, and is a compile error that runs nothing otherwise.
C26_JumpsLandWherePatched ==
    [][/\ (instruction \in {OpJump, OpJumpIfFalse, OpLoop}
           /\ last_instruction' = instruction /\ pc' = "run")
             => /\ frame(M').ip
                     = IF instruction = OpLoop THEN frame(M).ip + 3 - JumpOperand
                       ELSE IF JumpTaken THEN frame(M).ip + 3 + JumpOperand
                       ELSE frame(M).ip + 3
                /\ \A case \in JumpCases :
                      (source = case_source(case) /\ JumpTaken)
                         => frame(M').ip = PatchPoint(case, frame(M).ip)
       /\ \A case \in JumpCases :
             (source' = case_source(case) /\ pc' # "main")
                => IF FitsU16(case)
                   THEN compile_errors' = <<>> /\ result' # "CompileError"
                   ELSE /\ pc' = "exit"
                        /\ result' = "CompileError"
                        /\ last_instruction' = -1
                        /\ Len(compile_errors') = 1
                        /\ compile_errors'[1].message
                             = IF case.kind = "if" THEN "Too much code to jump over."
                               ELSE "Loop body too large."]_vars

\* C26 witness: the Loop of the while case whose distance is 65535 has put
\* ip back at loop_start.
C26_Witness ==
    /\ source = case_source([kind |-> "while", cond |-> TRUE, body |-> WhileBodyMax])
    /\ last_instruction = OpLoop
    /\ pc = "run"
    /\ frame(M).ip = 0

\* The opcodes whose operand is a constant index.
ConstantOpcodes == {OpConstant, OpDefineGlobal, OpGetGlobal, OpSetGlobal, OpClosure}

\* The running frames' functions.
RunningFunctions ==
    {heap.closures[frames[i].closure].function : i \in 1..Len(frames)}

\* The compiler after SrcConstants(n), as compile_loop leaves it, is the one
\* after_constants writes down.
C27_PrefixIsCompiled ==
    \A n \in 0..MaxPrefix :
        LET c == compile_loop(Compiler_new(SrcConstants(n), EmptyHeap))
            a == after_constants(Compiler_new(SrcConstants(n), EmptyHeap), n)
        IN /\ c.h = a.h
           /\ c.cur = a.cur
           /\ c.prev = a.prev
           /\ c.compiler_states = a.compiler_states
           /\ c.had_error = a.had_error
           /\ c.errors = a.errors
           /\ c.panicked = a.panicked

\* C27: the constant index an instruction about to be decoded carries is
\* below the length of its chunk's constant list, and no chunk that runs has
\* more than 256 constants; in the program of 256 statements `k;` the
\* Constant of the i-th statement carries i - 1 and that constant is the
\* statement's number; the program of 257 such statements is the compile
\* error "Too many constants in one chunk." and runs nothing.
C27_ConstantIndicesInRange ==
    /\ instruction \in ConstantOpcodes
          => frame_function(M).code[frame(M).ip + 2] < Len(frame_function(M).constants)
    /\ \A f \in RunningFunctions : Len(heap.functions[f].constants) <= U8_MAX + 1
    /\ pc = "main" => C27_PrefixIsCompiled
    /\ (source = SrcConstantsFull /\ pc # "main")
          => /\ result # "CompileError"
             /\ compile_errors = <<>>
             /\ instruction = OpConstant
                   => /\ frame(M).ip % 3 = 0
                      /\ frame_function(M).code[frame(M).ip + 2] = frame(M).ip \div 3
                      /\ frame_function(M).constants[(frame(M).ip \div 3) + 1]
                           = parse_f64(source[2 * (frame(M).ip \div 3) + 1])
    /\ (source = SrcConstantsOver /\ pc # "main")
          => /\ pc = "exit"
             /\ result = "CompileError"
             /\ last_instruction = -1
             /\ Len(compile_errors) = 1
             /\ compile_errors[1].message = "Too many constants in one chunk."

\* C27 witness: the 256th statement's Constant, with index 255, is about to
\* be decoded.
C27_Witness ==
    /\ source = SrcConstantsFull
    /\ instruction = OpConstant
    /\ frame_function(M).code[frame(M).ip + 2] = U8_MAX
    /\ Len(frame_function(M).constants) = U8_MAX + 1


\* compile on a function of n + 1 parameters gives what compile_parameters
\* gives from the state written down after n of them.
C28_PrefixIsCompiled ==
    \A n \in 1..MaxPrefix :
        LET c == compile(Compiler_new(SrcManyParams(n + 1), EmptyHeap))
            a == compile_parameters(Compiler_new(SrcManyParams(n + 1), EmptyHeap), n)
        IN /\ c.h = a.h
           /\ c.ret = a.ret
           /\ c.cur = a.cur
           /\ c.compiler_states = a.compiler_states
           /\ c.errors = a.errors
           /\ c.panicked = a.panicked

\* C28: no function's arity exceeds 255; the function declared with n
\* parameters, n up to 255, compiles and has arity n; the declaration with
\* 256 parameters is a compile error.
C28_ArityCountsParameters ==
    /\ \A f \in 1..Len(heap.functions) : heap.functions[f].arity <= U8_MAX
    /\ pc = "main" => C28_PrefixIsCompiled
    /\ \A n \in ParameterPrefixes :
          (source = SrcManyParams(n + 1) /\ pc # "main")
             => IF n + 1 <= U8_MAX
                THEN /\ pc # "panic"
                     /\ result # "CompileError"
                     /\ pc = "run" => heap.functions[2].arity = n + 1
                ELSE /\ pc = "exit"
                     /\ result = "CompileError"

\* The same without the declaration of 256 parameters.
ArityCountsUpTo255 ==
    source # SrcManyParams(U8_MAX + 1) => C28_ArityCountsParameters

\* C29: the block that declares the local a twice is the compile error
\* "Already a variable with this name in this scope." and runs nothing; the
\* block that declares a again in a nested block compiles, and the inner a
\* shadows the outer: it prints 2 inside and 1 after the nested block.
C29_RedeclarationInScopeIsError ==
    /\ (source = SrcRedeclare /\ pc # "main")
          => /\ pc = "exit"
             /\ result = "CompileError"
             /\ last_instruction = -1
             /\ Len(compile_errors) = 1
             /\ compile_errors[1].message
                  = "Already a variable with this name in this scope."
    /\ (source = SrcShadow /\ pc # "main")
          => /\ compile_errors = <<>>
             /\ pc # "panic"
             /\ pc = "exit"
                   => /\ result = "Ok"
                      /\ output = <<out_number(Number(2, 1)), out_number(Number(1, 1))>>

\* C29 witness: the redeclaration has been reported and interpret has
\* returned CompileError.
C29_Witness ==
    /\ source = SrcRedeclare
    /\ pc = "exit"
    /\ result = "CompileError"
    /\ Len(compile_errors) = 1

\* The code of the script function the compiler left on the heap.
ScriptCode == heap.functions[Len(heap.functions)].code

\* C30: a * b = c; is the compile error "Invalid assignment target.", and
\* the code emitted for it holds neither SetLocal nor SetGlobal.
C30_InvalidAssignmentTarget ==
    (source = SrcInvalidTarget /\ pc # "main")
      => /\ pc = "exit"
         /\ result = "CompileError"
         /\ \E i \in 1..Len(compile_errors) :
                compile_errors[i].message = "Invalid assignment target."
         /\ \A i \in 1..Len(ScriptCode) : ScriptCode[i] \notin {OpSetLocal, OpSetGlobal}

\* What a * b = c; compiles to: variable(false) for b takes the = before it
\* tests can_assign, so the one error is the missing ';' at c.
InvalidTargetEqualIsSwallowed ==
    (source = SrcInvalidTarget /\ pc # "main")
      => /\ pc = "exit"
         /\ result = "CompileError"
         /\ Len(compile_errors) = 1
         /\ compile_errors[1].message
              = "Expect ';' after expression statement expression."
         /\ ScriptCode = <<OpGetGlobal, 0, OpGetGlobal, 1, OpMultiply, OpPop,
                           OpNil, OpReturn>>

\* The machine interpret leaves on the file, from the machine of Init.
InterpretOfSource ==
    interpret([stack |-> <<>>, stack_top |-> 0, globals |-> [n \in {} |-> Nil],
               frames |-> <<>>, open_upvalues |-> 0, h |-> EmptyHeap,
               pc |-> "main", mode |-> "file", line |-> <<>>, lines_read |-> 0,
               result |-> "None", exit_code |-> 0,
               output |-> <<>>, errors |-> <<>>, compile_errors |-> <<>>,
               ret |-> 0],
              source)

\* Compiling one declaration at a time is compile: right after CompileEnd
\* the machine is the one interpret builds in one piece.
StepwiseIsInterpret ==
    (pc \notin {"main", "compile", "declared"} /\ last_instruction = -1)
      => M = [InterpretOfSource EXCEPT !.ret = 0]

\* The tokens synchronize stops before.
SynchronizeStops ==
    {"EOF", "Class", "Fun", "Var", "For", "If", "While", "Print", "Return"}

\* C31: over the passes of compile's loop, (1) had_error, once set, stays
\* set, and a compile that had an error returns CompileError; (2) in a
\* declaration with no nested declaration at most one error is reported, it
\* sets panic_mode and had_error, and a declaration entered in panic mode
\* reports none; (3) synchronize acts only in panic mode, clears panic_mode
\* (a scan error met while skipping is reported and sets it again), and stops
\* at the first token that follows a `;` or is one of
\* class/fun/var/for/if/while/print/return or Eof.
C31_PanicModeSuppressesUntilSynchronize ==
    [][/\ (pc = "compile" /\ pc' = "declared")
            => /\ compiler.had_error => compiler'.had_error
               /\ SubSeq(compiler'.errors, 1, Len(compiler.errors)) = compiler.errors
               /\ (\A i \in 1..Len(source) : source[i] # "{")
                    => /\ Len(compiler'.errors) <= Len(compiler.errors) + 1
                       /\ compiler.panic_mode => compiler'.errors = compiler.errors
                       /\ Len(compiler'.errors) > Len(compiler.errors)
                            => compiler'.panic_mode /\ compiler'.had_error
       /\ (pc = "declared" /\ pc' = "compile")
            => /\ compiler.had_error => compiler'.had_error
               /\ ~compiler.panic_mode => compiler' = compiler
               /\ compiler.panic_mode
                    => /\ \/ token_type(current(compiler')) \in SynchronizeStops
                          \/ token_type(previous(compiler')) = "Semicolon"
                       /\ \A k \in compiler.cur..(compiler'.cur - 1) :
                              token_type(TokAt(compiler.toks, k)) \notin SynchronizeStops
                       /\ \A k \in compiler.prev..(compiler'.prev - 1) :
                              token_type(TokAt(compiler.toks, k)) # "Semicolon"
                       /\ SubSeq(compiler'.errors, 1, Len(compiler.errors))
                            = compiler.errors
                       /\ Len(compiler'.errors) <= Len(compiler.errors) + 1
                       /\ compiler'.panic_mode
                            <=> Len(compiler'.errors) > Len(compiler.errors)
       /\ (pc = "compile" /\ pc' \notin {"compile", "declared"})
            => /\ compile_errors' = compile_errors \o compiler.errors
               /\ (compiler.had_error /\ ~compiler.panicked)
                    => pc' = "exit" /\ result' = "CompileError"
               /\ compiler.had_error <=> compiler.errors # <<>>
      ]_vars

\* C31 witness: print + 1 @ ; print ; var a = 1 ; has been compiled to its
\* end; two errors were reported (the + and, during synchronize, the @), the
\* error of the second print was suppressed, and panic mode is cleared.
C31_Witness ==
    /\ source = SrcErrors
    /\ pc = "compile"
    /\ check(compiler, "EOF")
    /\ Len(compiler.errors) = 2
    /\ compiler.had_error
    /\ ~compiler.panic_mode


\* The files whose statements are if and while statements over globals.
ControlFiles == {SrcIfPaths, SrcWhileIf, SrcWhile}

\* The stack holds the script's slot 0 alone whenever run is about to decode
\* the first instruction of a top-level statement.
BalancedAtStatement ==
    (source \in ControlFiles /\ pc = "run" /\ Len(frames) = 1)
      => (frame(M).ip \in declaration_starts(Compiler_new(source, EmptyHeap))
            => stack_top = 1)

\* C32: JumpIfFalse leaves the stack as it was; in the compiled if and while
\* statements the instruction run after a JumpIfFalse, jump taken or not, is
\* the Pop of the condition; and the stack height at the start of every
\* top-level statement, so after every if and while statement, is the same.
C32_ConditionPoppedOnce ==
    /\ []BalancedAtStatement
    /\ [][(instruction = OpJumpIfFalse /\ last_instruction' = OpJumpIfFalse)
            => /\ stack_top' = stack_top
               /\ stack' = stack
               /\ pc' = "run"
               /\ source \in ControlFiles
                    => /\ frame_function(M).code[frame(M).ip + 4] = OpPop
                       /\ instruction' = OpPop
                       /\ frames'[1].ip \in {frame(M).ip + 3,
                                              frame(M).ip + 3 + JumpOperand}
         ]_vars

\* C32 witness: the loop of SrcWhileIf has run twice (0 and 1 are printed),
\* its condition has failed, and run is at the first instruction of the
\* statement after the loop with the stack at its height.
C32_Witness ==
    /\ source = SrcWhileIf
    /\ pc = "run"
    /\ Len(output) = 2
    /\ last_instruction = OpPop
    /\ stack_top = 1
    /\ frame(M).ip \in declaration_starts(Compiler_new(source, EmptyHeap))

\* The value of a literal of LogicOperands.
LogicLiteral(lex) ==
    CASE lex = "true" -> Bool(TRUE)
      [] lex = "false" -> Bool(FALSE)
      [] lex = "nil" -> Nil
      [] OTHER -> parse_f64(lex)

\* Lox's and, or on values.
LogicValue(a, op, b) ==
    IF op = "and" THEN (IF is_falsey(a) THEN a ELSE b)
    ELSE (IF is_falsey(a) THEN b ELSE a)

\* The value of a op1 b op2 c, and binding tighter than or.
LogicChainValue(src) ==
    LET a == LogicLiteral(src[2])
        b == LogicLiteral(src[4])
        c == LogicLiteral(src[6])
    IN IF src[3] = "or" /\ src[5] = "and"
       THEN LogicValue(a, "or", LogicValue(b, "and", c))
       ELSE LogicValue(LogicValue(a, src[3], b), src[5], c)

\* Whether a op (x = 2) evaluates its right operand.
LogicRightRuns(src) ==
    IF src[8] = "and" THEN ~is_falsey(LogicLiteral(src[7]))
    ELSE is_falsey(LogicLiteral(src[7]))

\* C33: print a op1 b op2 c; prints the value and/or have in Lox, with one
\* value on the stack at the Print; in print a op (x = 2); the assignment
\* runs exactly when a does not decide the result (a truthy for and, falsey
\* for or), and the result is a otherwise; and the scenario
\* if (!(1 == 2) and (3 <= 3 or false)) takes its then-branch.
C33_LogicalOperatorsShortCircuit ==
    /\ (source \in LogicChainFiles \cup LogicAssignFiles /\ pc # "main")
          => /\ pc \in {"run", "exit"}
             /\ compile_errors = <<>>
             /\ errors = <<>>
             /\ instruction = OpPrint => stack_top = 2
             /\ pc = "exit" => result = "Ok"
    /\ (source \in LogicChainFiles /\ pc = "exit")
          => output = <<display(heap, LogicChainValue(source))>>
    /\ (source \in LogicAssignFiles /\ pc = "exit")
          => output =
               IF LogicRightRuns(source)
               THEN <<out_number(Number(2, 1)), out_number(Number(2, 1))>>
               ELSE <<display(heap, LogicLiteral(source[7])), out_number(Number(0, 1))>>
    /\ (source \in LogicAssignFiles /\ pc = "run" /\ ~LogicRightRuns(source))
          => last_instruction # OpSetGlobal
    /\ (source = SrcLogic /\ pc = "exit")
          => result = "Ok" /\ output = <<out_text("foo")>>

\* C33 witness: print false and (x = 2); has printed false and then 0: the
\* assignment did not run.
C33_Witness ==
    /\ source = <<"var", "x", "=", "0", ";", "print", "false", "and",
                  "(", "x", "=", "2", ")", ";", "print", "x", ";">>
    /\ pc = "exit"
    /\ result = "Ok"
    /\ output = <<out_text("false"), out_number(Number(0, 1))>>

\* The roots of mark_roots: RootRefs and the open upvalues.
CollectionRoots == RootRefs \cup {<<"upvalues", OpenList[i]>> : i \in 1..Len(OpenList)}

\* C34: the Closure arm allocates through VM::heap_alloc, which collects
\* first; after that collection every object the roots reach, through
\* closures, functions' constants and closed upvalues, is marked.
C34_ReachableIsMarked ==
    [][(instruction = OpClosure /\ last_instruction' = OpClosure /\ pc' = "run")
          => Reach(CollectionRoots) \subseteq heap'.marked]_vars

\* What the collection of the Closure arm does mark: the roots themselves.
RootsAreMarked ==
    [][(instruction = OpClosure /\ last_instruction' = OpClosure /\ pc' = "run")
          => /\ CollectionRoots \subseteq heap'.marked
             /\ heap'.marked \ heap.marked \subseteq CollectionRoots]_vars

\* The objects on the collector's list.
LinkedObjects == {heap.objects[i] : i \in 1..Len(heap.objects)}

\* C35: at the collection the Closure arm runs, no object is marked when it
\* starts; when it completes, every object the roots do not reach is off the
\* object list and freed, and no object is left marked.
C35_SweepFreesAndClearsMarks ==
    [][(instruction = OpClosure /\ last_instruction' = OpClosure /\ pc' = "run")
          => /\ heap.marked = {}
             /\ heap'.marked = {}
             /\ \A o \in LinkedObjects \ Reach(CollectionRoots) :
                   /\ o \in heap'.freed
                   /\ \A i \in 1..Len(heap'.objects) : heap'.objects[i] # o]_vars

\* What the collector does: marks are only ever added, the object list only
\* grows at its head, and nothing is freed while main has not returned.
MarksAccumulate ==
    [][/\ heap.marked \subseteq heap'.marked
       /\ Len(heap'.objects) >= Len(heap.objects)
       /\ SubSeq(heap'.objects, Len(heap'.objects) - Len(heap.objects) + 1,
                 Len(heap'.objects)) = heap.objects
       /\ pc' \in {"run", "repl"} => heap'.freed = {}]_vars

\* Every object allocated so far.
HeapKinds == {"functions", "strings", "closures", "upvalues", "natives"}
AllObjects == UNION {{<<kind, p>> : p \in 1..Len(heap[kind])} : kind \in HeapKinds}

\* C36: every object on the heap is on the collector's object list, once; and
\* when main has returned, free_objects has freed every object.
C36_EveryObjectLinkedAndFreed ==
    /\ AllObjects \subseteq LinkedObjects
    /\ \A i, j \in 1..Len(heap.objects) : heap.objects[i] = heap.objects[j] => i = j
    /\ (pc = "exit" /\ result = "Ok") => AllObjects \subseteq heap.freed

\* What holds: list and heap differ only by strings that are constants
\* (the literals of Compiler::string); the list has no object twice; and
\* after main has returned exactly the listed objects are freed.
UnlinkedAreLiteralStrings ==
    /\ LinkedObjects \subseteq AllObjects
    /\ \A o \in AllObjects \ LinkedObjects :
          /\ o[1] = "strings"
          /\ \E f \in 1..Len(heap.functions) :
                \E k \in 1..Len(heap.functions[f].constants) :
                    heap.functions[f].constants[k] = ObjString(o[2])
    /\ \A i, j \in 1..Len(heap.objects) : heap.objects[i] = heap.objects[j] => i = j
    /\ (pc = "exit" /\ result = "Ok") => heap.freed = LinkedObjects
    /\ ~(pc = "exit" /\ result = "Ok") => heap.freed = {}


\* compile on a function of n + 1 parameters and a local gives what
\* compile_parameters gives from the state written down after n of them.
C37_PrefixIsCompiled ==
    \A n \in 1..MaxPrefix :
        LET c == compile(Compiler_new(SrcParamsAndLocal(n + 1), EmptyHeap))
            a == compile_parameters(Compiler_new(SrcParamsAndLocal(n + 1), EmptyHeap), n)
        IN /\ c.h = a.h
           /\ c.ret = a.ret
           /\ c.cur = a.cur
           /\ c.compiler_states = a.compiler_states
           /\ c.errors = a.errors
           /\ c.panicked = a.panicked

\* C37: the function of n parameters that declares one local compiles when
\* slot 0, the parameters and the local are at most 256 locals; with 255
\* parameters, 256 locals are present when the local is declared, and the
\* declaration is the compile error "Too many local variables in function.".
C37_LocalsLimitedTo256 ==
    /\ pc = "main" => C37_PrefixIsCompiled
    /\ \A n \in LocalPrefixes :
          (source = SrcParamsAndLocal(n + 1) /\ pc # "main")
             => IF n + 3 <= MAX_LOCALS
                THEN /\ pc # "panic"
                     /\ compile_errors = <<>>
                     /\ result # "CompileError"
                ELSE /\ pc = "exit"
                     /\ result = "CompileError"
                     /\ Len(compile_errors) = 1
                     /\ compile_errors[1].message
                          = "Too many local variables in function."

\* The same without the function of 255 parameters.
LocalsUpTo256 ==
    source # SrcParamsAndLocal(U8_MAX) => C37_LocalsLimitedTo256

\* With 255 parameters the declaration of the local aborts the compiler.
LocalBeyond256Panics ==
    (source = SrcParamsAndLocal(U8_MAX) /\ pc # "main")
       => pc = "panic" /\ compile_errors = <<>>

\* The offsets at which the instructions of `code` start, decoding from
\* offset i - 1 on.
RECURSIVE instruction_starts(_, _)
instruction_starts(code, i) ==
    IF i > Len(code) THEN {}
    ELSE {i - 1} \cup instruction_starts(code, i + 1 + operand_bytes(code, i))

\* The bytes Opcode::try_from decodes.
DefinedOpcodes ==
    (OpReturn..OpCall) \cup {OpClosure, OpGetUpvalue, OpSetUpvalue, OpCloseUpvalue}

\* The function whose code the i-th frame runs.
FrameCode(i) == heap.functions[heap.closures[frames[i].closure].function].code

\* C38: while run is looping, every frame's ip is inside its chunk and at
\* the start of an instruction, never at an operand; the byte the next pass
\* fetches is a defined opcode; and the chunk of every frame ends with
\* Nil, Return.
C38_FetchIsAtInstructionStart ==
    pc = "run"
      => /\ frames # <<>>
         /\ instruction \in DefinedOpcodes
         /\ \A i \in 1..Len(frames) :
               /\ frames[i].ip < Len(FrameCode(i))
               /\ frames[i].ip \in instruction_starts(FrameCode(i), 1)
               /\ Len(FrameCode(i)) >= 2
               /\ SubSeq(FrameCode(i), Len(FrameCode(i)) - 1, Len(FrameCode(i)))
                    = <<OpNil, OpReturn>>

\* C38 witness: the loop of SrcWhile has jumped back after its second
\* iteration and run is about to fetch the first instruction of the
\* condition.
C38_Witness ==
    /\ source = SrcWhile
    /\ pc = "run"
    /\ last_instruction = OpLoop
    /\ instruction = OpGetGlobal
    /\ frame(M).ip > 0
    /\ Len(output) = 2

\* C39: every call of interpret finds the value stack empty, and leaves the
\* global clock bound to the native it has just allocated.
C39_EveryInterpretBindsClock ==
    [][(pc \in {"main", "repl"})
         => (stack_top = 0 /\ pc' # "panic" /\ "clock" \in DOMAIN globals'
             /\ globals'["clock"] = ObjNative(Len(heap'.natives)))]_vars

\* What holds: a call of interpret that finds the stack empty binds clock to
\* the native it allocated; one that finds a value in slot 0 that is not a
\* string panics in define_native.
ClockBoundWhenStackEmpty ==
    [][(pc \in {"main", "repl"})
         => (IF stack_top = 0
             THEN (pc' # "panic" /\ "clock" \in DOMAIN globals'
                   /\ globals'["clock"] = ObjNative(Len(heap'.natives)))
             ELSE (stack[1].t # "ObjString" => pc' = "panic"))]_vars

====
